---- MODULE Spec2Model ----
(***************************************************************************)
(* The forwarding proxy of the Homer dashboard, in its two forms: the      *)
(* standalone relay (src/unnamed/part_000, an express application) and the *)
(* development server's middleware (src/unnamed/part_001, the homer-proxy  *)
(* plugin), with the process-wide state a handler shares with the others:  *)
(* the Session Table `sessionCookies` and the environment variable         *)
(* NODE_TLS_REJECT_UNAUTHORIZED.                                           *)
(*                                                                         *)
(* JavaScript runs a handler without interruption up to its next `await`;  *)
(* every action below is one such uninterrupted run of one handler.        *)
(*                                                                         *)
(* JavaScript strings are sequences of one-character strings, so that      *)
(* startsWith, split, join and replace are computed character by           *)
(* character.                                                              *)
(***************************************************************************)
EXTENDS Integers, Sequences, FiniteSets, TLC

\* The number of handler invocations that can be in progress at once.
NumCalls == 2

Calls == 1..NumCalls

\* JavaScript's undefined (and null): a one-element sequence whose element is
\* not a character, so that no string of characters equals it.
undefined == <<"undefined">>

\* The URIError of decodeURIComponent and the TypeError of new URL.
URIError == <<"URIError">>
TypeError == <<"TypeError">>

IsError(v) == v \in {URIError, TypeError}

\* JavaScript truthiness of a string-or-undefined value.
Truthy(v) == v # undefined /\ v # <<>>

-----------------------------------------------------------------------------
(* String.prototype methods *)

startsWith(s, p) == Len(s) >= Len(p) /\ SubSeq(s, 1, Len(p)) = p

substring(s, n) == SubSeq(s, n + 1, Len(s))

includes(s, p) == \E i \in 1..(Len(s) - Len(p) + 1) : SubSeq(s, i, i + Len(p) - 1) = p

\* indexOf: the first position (from 1) at which p occurs in s, 0 when none.
indexOf(s, p) ==
  IF includes(s, p)
  THEN CHOOSE i \in 1..(Len(s) - Len(p) + 1) :
         /\ SubSeq(s, i, i + Len(p) - 1) = p
         /\ \A j \in 1..(i - 1) : SubSeq(s, j, j + Len(p) - 1) # p
  ELSE 0

\* s.replace(p, r) with a string pattern: the first occurrence only.
replace(s, p, r) ==
  LET i == indexOf(s, p)
  IN IF i = 0 THEN s
     ELSE SubSeq(s, 1, i - 1) \o r \o SubSeq(s, i + Len(p), Len(s))

\* s.split(sep) for a one-character separator: a sequence of strings
\* ("".split(",") is [""]).
RECURSIVE split(_, _)
split(s, sep) ==
  LET i == indexOf(s, <<sep>>)
  IN IF i = 0 THEN <<s>>
     ELSE <<SubSeq(s, 1, i - 1)>> \o split(SubSeq(s, i + 1, Len(s)), sep)

\* parts.join(sep)
RECURSIVE join(_, _)
join(parts, sep) ==
  IF parts = <<>> THEN <<>>
  ELSE IF Len(parts) = 1 THEN parts[1]
  ELSE parts[1] \o sep \o join(Tail(parts), sep)

\* parts.map(f) for f = (cookie) => cookie.split(";")[0]
mapFirstPart(parts) == [i \in 1..Len(parts) |-> split(parts[i], ";")[1]]

\* String.prototype.toLowerCase, for the letters of header names.
LowerCaseOf ==
  "A" :> "a" @@ "B" :> "b" @@ "C" :> "c" @@ "D" :> "d" @@ "E" :> "e" @@ "F" :> "f" @@ "G" :> "g" @@
  "H" :> "h" @@ "I" :> "i" @@ "J" :> "j" @@ "K" :> "k" @@ "L" :> "l" @@ "M" :> "m" @@ "N" :> "n" @@
  "O" :> "o" @@ "P" :> "p" @@ "Q" :> "q" @@ "R" :> "r" @@ "S" :> "s" @@ "T" :> "t" @@ "U" :> "u" @@
  "V" :> "v" @@ "W" :> "w" @@ "X" :> "x" @@ "Y" :> "y" @@ "Z" :> "z"

toLowerCase(s) ==
  [i \in 1..Len(s) |-> IF s[i] \in DOMAIN LowerCaseOf THEN LowerCaseOf[s[i]] ELSE s[i]]

-----------------------------------------------------------------------------
(* Maps and objects: functions whose domain is the set of keys present *)

EmptyMap == [k \in {} |-> undefined]

MapGet(m, k) == IF k \in DOMAIN m THEN m[k] ELSE undefined

MapSet(m, k, v) == [x \in (DOMAIN m) \cup {k} |-> IF x = k THEN v ELSE m[x]]

-----------------------------------------------------------------------------
(* Library functions the relay calls *)

\* The percent-escapes decodeURIComponent is modelled for (the inbound paths
\* of this model use no other escape).
PercentCodes ==
  [c \in {<<"3", "A">>, <<"2", "F">>, <<"2", "5">>, <<"3", "F">>} |->
     IF c = <<"3", "A">> THEN ":"
     ELSE IF c = <<"2", "F">> THEN "/"
     ELSE IF c = <<"2", "5">> THEN "%"
     ELSE "?"]

\* decodeURIComponent(s): every %XX replaced by its character, once, left to
\* right; a % that does not start an escape throws URIError.
RECURSIVE decodeURIComponent(_)
decodeURIComponent(s) ==
  IF s = <<>> THEN <<>>
  ELSE IF Head(s) # "%"
  THEN LET rest == decodeURIComponent(Tail(s))
       IN IF rest = URIError THEN URIError ELSE <<Head(s)>> \o rest
  ELSE IF Len(s) < 3 \/ SubSeq(s, 2, 3) \notin DOMAIN PercentCodes
  THEN URIError
  ELSE LET rest == decodeURIComponent(SubSeq(s, 4, Len(s)))
       IN IF rest = URIError THEN URIError
          ELSE <<PercentCodes[SubSeq(s, 2, 3)]>> \o rest

HttpColon == <<"h", "t", "t", "p", ":">>
HttpsColon == <<"h", "t", "t", "p", "s", ":">>

RECURSIVE skipSlashes(_)
skipSlashes(s) ==
  IF s # <<>> /\ Head(s) \in {"/", "\\"} THEN skipSlashes(Tail(s)) ELSE s

RECURSIVE upToDelimiter(_)
upToDelimiter(s) ==
  IF s = <<>> \/ Head(s) \in {"/", "\\", "?", "#"} THEN <<>>
  ELSE <<Head(s)>> \o upToDelimiter(Tail(s))

\* new URL(s).host for an http: or https: URL: the slashes after the scheme
\* are skipped however many there are, the host runs to the next / \ ? or #,
\* and an empty host is a TypeError, as is a string with no scheme. (The
\* hosts of this model are lower-case, with no user name and no default
\* port, so that the host is what is written.)
UrlHost(s) ==
  LET afterScheme == IF startsWith(s, HttpsColon) THEN substring(s, Len(HttpsColon))
                     ELSE IF startsWith(s, HttpColon) THEN substring(s, Len(HttpColon))
                     ELSE TypeError
      host == IF afterScheme = TypeError THEN TypeError
              ELSE upToDelimiter(skipSlashes(afterScheme))
  IN IF host = <<>> THEN TypeError ELSE host

\* new URL(s).href, the URL that fetch(s) requests, for an http: or https:
\* URL of this model: the scheme, two slashes, and what follows the slashes
\* that were written after the scheme; TypeError as for UrlHost.
UrlHref(s) ==
  IF IsError(UrlHost(s)) THEN TypeError
  ELSE IF startsWith(s, HttpsColon)
  THEN HttpsColon \o <<"/", "/">> \o skipSlashes(substring(s, Len(HttpsColon)))
  ELSE HttpColon \o <<"/", "/">> \o skipSlashes(substring(s, Len(HttpColon)))

\* Headers.get("set-cookie") of the upstream response gives null or one
\* string (several Set-Cookie header lines arrive joined by ", "); it is never
\* an array.
IsArray(v) == FALSE

-----------------------------------------------------------------------------
(* The standalone relay's computations (src/unnamed/part_000) *)

ApiProxyPrefix == <<"a", "p", "i", "/", "p", "r", "o", "x", "y", "/">>
HttpsOneSlash == <<"h", "t", "t", "p", "s", ":", "/">>
HttpsTwoSlash == <<"h", "t", "t", "p", "s", ":", "/", "/">>
HttpOneSlash == <<"h", "t", "t", "p", ":", "/">>
HttpTwoSlash == <<"h", "t", "t", "p", ":", "/", "/">>

\* proxyPath: originalUrl without its leading slash and without one
\* api/proxy/ prefix.
ProxyPath(originalUrl) ==
  LET p1 == IF startsWith(originalUrl, <<"/">>) THEN substring(originalUrl, 1)
            ELSE originalUrl
  IN IF startsWith(p1, ApiProxyPrefix) THEN substring(p1, Len(ApiProxyPrefix))
     ELSE p1

\* (mutant) no correction of the scheme
FixSchemeNot(t) == t

\* The scheme correction of https:/ and http:/.
FixScheme(t) ==
  LET t1 == IF startsWith(t, HttpsOneSlash) /\ ~startsWith(t, HttpsTwoSlash)
            THEN replace(t, HttpsOneSlash, HttpsTwoSlash) ELSE t
  IN IF startsWith(t1, HttpOneSlash) /\ ~startsWith(t1, HttpTwoSlash)
     THEN replace(t1, HttpOneSlash, HttpTwoSlash) ELSE t1

\* (mutant) a target that is percent-decoded twice
TargetUrlTwice(proxyPath) ==
  IF includes(proxyPath, <<"%">>)
  THEN FixScheme(decodeURIComponent(decodeURIComponent(proxyPath)))
  ELSE FixScheme(proxyPath)

\* targetUrl: proxyPath percent-decoded when it contains %, then corrected;
\* URIError when the decoding throws.
TargetUrl(proxyPath) ==
  LET decoded == IF includes(proxyPath, <<"%">>) THEN decodeURIComponent(proxyPath)
                 ELSE proxyPath
  IN IF decoded = URIError THEN URIError ELSE FixScheme(decoded)

\* Header names (node gives req.headers its keys in lower case).
UserAgent == <<"u", "s", "e", "r", "-", "a", "g", "e", "n", "t">>
Accept == <<"a", "c", "c", "e", "p", "t">>
ContentType == <<"c", "o", "n", "t", "e", "n", "t", "-", "t", "y", "p", "e">>
Authorization == <<"a", "u", "t", "h", "o", "r", "i", "z", "a", "t", "i", "o", "n">>
Cookie == <<"c", "o", "o", "k", "i", "e">>
XPrefix == <<"x", "-">>

DefaultUserAgent == <<"H", "o", "m", "e", "r", "-", "P", "r", "o", "x", "y", "/", "1", ".", "0">>
DefaultAccept == <<"*", "/", "*">>

\* a || b
OrElse(a, b) == IF Truthy(a) THEN a ELSE b

\* forwardHeaders: the object literal, then authorization, then the x-
\* headers, then the stored cookie of the target domain.
ForwardHeaders(headers, storedCookies) ==
  LET literal == [k \in {UserAgent, Accept, ContentType} |->
                    IF k = UserAgent THEN OrElse(MapGet(headers, UserAgent), DefaultUserAgent)
                    ELSE IF k = Accept THEN OrElse(MapGet(headers, Accept), DefaultAccept)
                    ELSE MapGet(headers, ContentType)]
      withAuth == IF Truthy(MapGet(headers, Authorization))
                  THEN MapSet(literal, Authorization, headers[Authorization])
                  ELSE literal
      xKeys == {k \in DOMAIN headers : startsWith(k, XPrefix)}
      withX == [k \in (DOMAIN withAuth) \cup xKeys |->
                  IF k \in xKeys THEN headers[k] ELSE withAuth[k]]
  IN IF Truthy(storedCookies) THEN MapSet(withX, Cookie, storedCookies) ELSE withX

\* cookies: the name=value part of every cookie of the Set-Cookie value,
\* joined by "; ".
CaptureCookies(setCookieHeaders) ==
  IF IsArray(setCookieHeaders)
  THEN join(mapFirstPart(setCookieHeaders), <<";", " ">>)
  ELSE join(mapFirstPart(split(setCookieHeaders, ",")), <<";", " ">>)

SetCookie == <<"s", "e", "t", "-", "c", "o", "o", "k", "i", "e">>
ContentEncoding == <<"c", "o", "n", "t", "e", "n", "t", "-", "e", "n", "c", "o", "d", "i", "n", "g">>
TransferEncoding == <<"t", "r", "a", "n", "s", "f", "e", "r", "-", "e", "n", "c", "o", "d", "i", "n", "g">>

ContentLength == <<"c", "o", "n", "t", "e", "n", "t", "-", "l", "e", "n", "g", "t", "h">>
ContentLengthHeader == <<"C", "o", "n", "t", "e", "n", "t", "-", "L", "e", "n", "g", "t", "h">>

\* response.headers of a response sent with the header lines raw: a Headers
\* object keeps every name in lower case.
HeadersObject(raw) ==
  [k \in {toLowerCase(n) : n \in DOMAIN raw} |->
     raw[CHOOSE n \in DOMAIN raw : toLowerCase(n) = k]]

\* res.setHeader(name, value): header names do not depend on letter case.
SetHeader(headers, name, value) == MapSet(headers, toLowerCase(name), value)

\* (mutant) a copy that leaves out content-encoding alone
RelayedHeadersBarOne(responseHeaders) ==
  [k \in {n \in DOMAIN responseHeaders : toLowerCase(n) # ContentEncoding} |->
     responseHeaders[k]]

\* The headers res.setHeader is called with in response.headers.forEach:
\* those of the upstream response but the two excluded.
RelayedHeaders(responseHeaders) ==
  [k \in {n \in DOMAIN responseHeaders :
             toLowerCase(n) \notin {ContentEncoding, TransferEncoding}} |->
     responseHeaders[k]]

-----------------------------------------------------------------------------
(* The development server's computations (src/unnamed/part_001) *)

SlashApiProxyPrefix == <<"/", "a", "p", "i", "/", "p", "r", "o", "x", "y", "/">>
UserAgentCapitalised == <<"U", "s", "e", "r", "-", "A", "g", "e", "n", "t">>
DashboardUserAgent == <<"H", "o", "m", "e", "r", "-", "D", "a", "s", "h", "b", "o", "a", "r", "d", "-", "P", "r", "o", "x", "y", "/", "1", ".", "0">>

\* proxyPath: req.url with its first /api/proxy/ removed.
ViteProxyPath(url) == replace(url, SlashApiProxyPrefix, <<>>)

\* targetUrl: proxyPath percent-decoded when it contains %; URIError when the
\* decoding throws. There is no scheme correction here.
ViteTargetUrl(proxyPath) ==
  IF includes(proxyPath, <<"%">>) THEN decodeURIComponent(proxyPath) ELSE proxyPath

\* forwardHeaders: the standard headers the request has, then the x-
\* headers, then the stored cookie of the target domain.
ViteForwardHeaders(headers, storedCookies) ==
  LET standard == {k \in {Authorization, ContentType, Accept, UserAgent} :
                     Truthy(MapGet(headers, k))}
      xKeys == {k \in DOMAIN headers : startsWith(k, XPrefix)}
      base == [k \in standard \cup xKeys |-> headers[k]]
  IN IF Truthy(storedCookies) THEN MapSet(base, Cookie, storedCookies) ELSE base

\* fetchOptions.headers: forwardHeaders and the key "User-Agent".
ViteFetchHeaders(forward) == MapSet(forward, UserAgentCapitalised, DashboardUserAgent)

-----------------------------------------------------------------------------
(* What arrives from outside: inbound requests and upstream responses *)

\* /api/proxy/https://a.io/s
UrlA == <<"/", "a", "p", "i", "/", "p", "r", "o", "x", "y", "/", "h", "t", "t", "p", "s", ":", "/", "/", "a", ".", "i", "o", "/", "s">>
\* /api/proxy/https%3A%2F%2Fa.io%2Fs
UrlAEncoded == <<"/", "a", "p", "i", "/", "p", "r", "o", "x", "y", "/", "h", "t", "t", "p", "s", "%", "3", "A", "%", "2", "F", "%", "2", "F", "a", ".", "i", "o", "%", "2", "F", "s">>
\* /api/proxy/http:/b.io/s (the double slash collapsed on the way)
UrlB == <<"/", "a", "p", "i", "/", "p", "r", "o", "x", "y", "/", "h", "t", "t", "p", ":", "/", "b", ".", "i", "o", "/", "s">>
\* /api/proxy/https%3A%2Fa.io%2Fs (decodes to https:/a.io/s)
UrlASingle == <<"/", "a", "p", "i", "/", "p", "r", "o", "x", "y", "/", "h", "t", "t", "p", "s", "%", "3", "A", "%", "2", "F", "a", ".", "i", "o", "%", "2", "F", "s">>
\* /api/proxy/https%253A%252F%252Fa.io (encoded twice)
UrlTwice == <<"/", "a", "p", "i", "/", "p", "r", "o", "x", "y", "/", "h", "t", "t", "p", "s", "%", "2", "5", "3", "A", "%", "2", "5", "2", "F", "%", "2", "5", "2", "F", "a", ".", "i", "o">>
\* /api/proxy/
UrlEmpty == <<"/", "a", "p", "i", "/", "p", "r", "o", "x", "y", "/">>
\* /api/proxy/% (an escape that cannot be decoded)
UrlBadEscape == <<"/", "a", "p", "i", "/", "p", "r", "o", "x", "y", "/", "%">>
\* /api/proxy/a.io (no scheme: not an absolute URL)
UrlNoScheme == <<"/", "a", "p", "i", "/", "p", "r", "o", "x", "y", "/", "a", ".", "i", "o">>
\* /x (not under the routing prefix)
UrlOther == <<"/", "x">>

\* req.originalUrl (req.url in the development server) of an inbound request.
OriginalUrls ==
  {UrlA, UrlAEncoded, UrlASingle, UrlTwice, UrlB, UrlEmpty, UrlBadEscape, UrlNoScheme, UrlOther}

HostA == <<"a", ".", "i", "o">>
HostB == <<"b", ".", "i", "o">>

\* cookie: x=9
InboundCookie == <<"x", "=", "9">>

\* req.headers of an inbound request.
RequestHeaders == {EmptyMap, [k \in {Cookie} |-> InboundCookie]}

\* req.method
Methods == {"GET", "POST", "PUT", "PATCH"}

\* Set-Cookie: a=1; Path=/, b=2; Path=/
SetCookieTwo == <<"a", "=", "1", ";", " ", "P", "a", "t", "h", "=", "/", ",", " ", "b", "=", "2", ";", " ", "P", "a", "t", "h", "=", "/">>
\* Set-Cookie: a=3
SetCookieOne == <<"a", "=", "3">>
\* Set-Cookie: ; Path=/ (attributes, and no name=value before them)
SetCookieNoPair == <<";", " ", "P", "a", "t", "h", "=", "/">>

\* response.headers.get("set-cookie") of an upstream response: null when
\* the response has no such header, the empty string when the header is
\* there with no value.
SetCookieValues == {undefined, <<>>, SetCookieOne, SetCookieTwo, SetCookieNoPair}

\* The headers of an upstream response whose Set-Cookie value is v.
ResponseHeaders(v) == IF v = undefined THEN EmptyMap ELSE [k \in {SetCookie} |-> v]

\* process.env.NODE_TLS_REJECT_UNAUTHORIZED as the process starts.
EnvValues == {undefined, <<"0">>, <<"1">>}

\* The status of an upstream response.
UpstreamStatus == 200

Etag == <<"e", "t", "a", "g">>

\* What an upstream response has besides Set-Cookie: its status, its other
\* header lines as the server wrote them, and the length of its body once
\* fetch has decoded it.
PlainResponse ==
  [status |-> UpstreamStatus, headers |-> EmptyMap, length |-> <<"5">>]

\* 200, Content-Encoding: gzip, content-length: 2, etag: e; the body is 5
\* bytes long when decompressed.
GzipResponse ==
  [status |-> UpstreamStatus,
   headers |-> (<<"C", "o", "n", "t", "e", "n", "t", "-", "E", "n", "c", "o", "d", "i", "n", "g">>
                  :> <<"g", "z", "i", "p">>)
               @@ (ContentLength :> <<"2">>) @@ (Etag :> <<"e">>),
   length |-> <<"5">>]

\* 404, Transfer-Encoding: chunked, etag: e.
ChunkedResponse ==
  [status |-> 404,
   headers |-> (<<"T", "r", "a", "n", "s", "f", "e", "r", "-", "E", "n", "c", "o", "d", "i", "n", "g">>
                  :> <<"c", "h", "u", "n", "k", "e", "d">>)
               @@ (Etag :> <<"e">>),
   length |-> <<"5">>]

\* 200, content-length: 5, and a body that is sent as it is.
SizedResponse ==
  [status |-> UpstreamStatus, headers |-> (ContentLength :> <<"5">>), length |-> <<"5">>]

UpstreamResponses == {PlainResponse, GzipResponse, ChunkedResponse, SizedResponse}

\* The header lines of an upstream response r that sets the cookie v.
UpstreamHeaders(v, r) ==
  [k \in DOMAIN ResponseHeaders(v) \cup DOMAIN r.headers |->
     IF k \in DOMAIN r.headers THEN r.headers[k] ELSE ResponseHeaders(v)[k]]

-----------------------------------------------------------------------------
(* The widgets' fetch helper *)

\* The booleans of JavaScript, as configuration values.
JsTrue == <<"t", "r", "u", "e">>

JsFalse == <<"f", "a", "l", "s", "e">>

\* if (v): v is neither undefined, nor "", nor false.
Holds(v) == Truthy(v) /\ v # JsFalse

Credentials == <<"c", "r", "e", "d", "e", "n", "t", "i", "a", "l", "s">>

Include == <<"i", "n", "c", "l", "u", "d", "e">>

Omit == <<"o", "m", "i", "t">>

SameOrigin == <<"s", "a", "m", "e", "-", "o", "r", "i", "g", "i", "n">>

UseCredentials == <<"u", "s", "e", "C", "r", "e", "d", "e", "n", "t", "i", "a", "l", "s">>

UseProxy == <<"u", "s", "e", "P", "r", "o", "x", "y">>

Enabled == <<"e", "n", "a", "b", "l", "e", "d">>

Username == <<"u", "s", "e", "r", "n", "a", "m", "e">>

Password == <<"p", "a", "s", "s", "w", "o", "r", "d">>

SkipBasicAuth == <<"s", "k", "i", "p", "B", "a", "s", "i", "c", "A", "u", "t", "h">>

HeadersKey == <<"h", "e", "a", "d", "e", "r", "s">>

MethodKey == <<"m", "e", "t", "h", "o", "d">>

ItemUrlKey == <<"u", "r", "l">>

AuthorizationHeader ==
  <<"A", "u", "t", "h", "o", "r", "i", "z", "a", "t", "i", "o", "n">>

\* `Basic ${btoa("u:p")}`
BasicCredentials == <<"B", "a", "s", "i", "c", " ", "d", "T", "p", "w">>

\* delete m[k]
MapDelete(m, k) == [x \in (DOMAIN m) \ {k} |-> m[x]]

\* this.proxy?.k; a proxy configuration that is not given is one with no key.
ProxyGet(proxy, k) == MapGet(proxy, k)

\* created(): the endpoint is the item's url without its trailing slash.
EndpointOf(item) ==
  LET u == MapGet(item, ItemUrlKey)
  IN  IF Truthy(u) /\ u[Len(u)] = "/" THEN SubSeq(u, 1, Len(u) - 1) ELSE u

\* options.credentials as the proxy configuration sets it.
WithProxyCredentials(options, proxy) ==
  IF Holds(ProxyGet(proxy, UseCredentials))
  THEN MapSet(options, Credentials, Include)
  ELSE options

\* options.headers as the proxy configuration sets it.
WithProxyHeaders(options, proxy) ==
  IF HeadersKey \in DOMAIN proxy
  THEN MapSet(options, HeadersKey, ProxyGet(proxy, HeadersKey))
  ELSE options

\* options.credentials as the item configuration overrides it.
WithItemCredentials(options, item) ==
  IF MapGet(item, UseCredentials) # undefined
  THEN MapSet(options, Credentials,
              IF MapGet(item, UseCredentials) = JsTrue THEN Include ELSE Omit)
  ELSE options

\* { ...a, ...b }
Spread(a, b) == [k \in DOMAIN a \cup DOMAIN b |-> IF k \in DOMAIN b THEN b[k] ELSE a[k]]

\* options.headers, or no header when the options have none.
HeadersOf(options) == IF HeadersKey \in DOMAIN options THEN options[HeadersKey] ELSE EmptyMap

\* options.headers with the item's own headers over them.
WithItemHeaders(options, item) ==
  IF HeadersKey \in DOMAIN item
  THEN MapSet(options, HeadersKey, Spread(HeadersOf(options), item[HeadersKey]))
  ELSE options

\* options.headers with HTTP Basic Auth; the Unifi widget's override of the
\* helper leaves this step out.
WithBasicAuth(options, component, item) ==
  IF /\ component # "Unifi"
     /\ Holds(MapGet(item, Username))
     /\ Holds(MapGet(item, Password))
     /\ ~Holds(MapGet(item, SkipBasicAuth))
  THEN MapSet(options, HeadersKey,
              Spread(HeadersOf(options),
                     [k \in {AuthorizationHeader} |-> BasicCredentials]))
  ELSE options

\* Object.assign(options, init); an init that is not given is one with no key.
ObjectAssign(options, init) == Spread(options, init)

\* The URL of the target: the endpoint, then / and the path without its
\* leading slash when a path is left.
WidgetTarget(endpoint, path) ==
  LET p == IF startsWith(path, <<"/">>) THEN substring(path, 1) ELSE path
  IN  IF Truthy(p) THEN endpoint \o <<"/">> \o p ELSE endpoint

\* this.item.useProxy || this.proxy?.enabled
UsesProxy(item, proxy) == Holds(MapGet(item, UseProxy)) \/ Holds(ProxyGet(proxy, Enabled))

\* The options of a request that does not drop its credentials setting.
ProxiedOptionsKept(options) == options

\* if (options.credentials) delete options.credentials
ProxiedOptions(options) ==
  IF Holds(MapGet(options, Credentials)) THEN MapDelete(options, Credentials) ELSE options

\* fetch(path, init) of the service mixin and of the Unifi widget: the url and
\* the options of the fetch it makes.
fetch(component, proxy, item, endpoint, path, init) ==
  LET options ==
        ObjectAssign(
          WithBasicAuth(
            WithItemHeaders(
              WithItemCredentials(
                WithProxyHeaders(WithProxyCredentials(EmptyMap, proxy), proxy),
                item),
              item),
            component, item),
          init)
      url == WidgetTarget(endpoint, path)
  IN  IF UsesProxy(item, proxy)
      THEN [url |-> <<"/">> \o ApiProxyPrefix \o url, options |-> ProxiedOptions(options)]
      ELSE [url |-> url, options |-> options]

\* The item url of the widgets: https://a.io/
ItemUrl == <<"h", "t", "t", "p", "s", ":", "/", "/", "a", ".", "i", "o", "/">>

XKey == <<"X", "-", "K">>

\* The item configurations: proxied or not, credentials set, cleared or left
\* alone, with and without a user and with and without headers of their own.
Items ==
  { Spread(Spread(Spread(Spread([k \in {ItemUrlKey} |-> ItemUrl], a), b), c), d) :
      a \in {EmptyMap, [k \in {UseProxy} |-> JsTrue]},
      b \in {EmptyMap, [k \in {UseCredentials} |-> JsTrue], [k \in {UseCredentials} |-> JsFalse]},
      c \in {EmptyMap, [k \in {Username, Password} |-> <<"u">>]},
      d \in {EmptyMap, [k \in {HeadersKey} |-> [h \in {XKey} |-> <<"1">>]]} }

\* The proxy configurations: none, or one that enables the relay or not and
\* asks for credentials or not.
Proxies ==
  { Spread(a, b) :
      a \in {EmptyMap, [k \in {Enabled} |-> JsTrue], [k \in {Enabled} |-> JsFalse]},
      b \in {EmptyMap, [k \in {UseCredentials} |-> JsTrue]} }

\* The paths the widgets ask for: none, s and /s.
Paths == {<<>>, <<"s">>, <<"/", "s">>}

\* Paths with a query string and with percent-escapes in it: s?q=1,
\* s?q=a%2Fb and s?q=%3F.
QueryPaths ==
  {<<"s">>,
   <<"s", "?", "q", "=", "1">>,
   <<"s", "?", "q", "=", "a", "%", "2", "F", "b">>,
   <<"s", "?", "q", "=", "%", "3", "F">>}

\* The init of the callers: none, a method, and each credentials value.
Inits ==
  {EmptyMap, [k \in {MethodKey} |-> <<"P", "O", "S", "T">>]} \cup
  { [k \in {Credentials} |-> v] : v \in {Include, Omit, SameOrigin, undefined} }

-----------------------------------------------------------------------------
(* The Transmission widget *)

\* The number of getStats runs that can be in progress at once: the first
\* and those of the timer.
NumRuns == 2

Runs == 1..NumRuns

\* [a-zA-Z0-9]
Alphanumeric ==
  {"a", "b", "c", "d", "e", "f", "g", "h", "i", "j", "k", "l", "m",
   "n", "o", "p", "q", "r", "s", "t", "u", "v", "w", "x", "y", "z",
   "A", "B", "C", "D", "E", "F", "G", "H", "I", "J", "K", "L", "M",
   "N", "O", "P", "Q", "R", "S", "T", "U", "V", "W", "X", "Y", "Z",
   "0", "1", "2", "3", "4", "5", "6", "7", "8", "9"}

RpcPath == <<"/", "t", "r", "a", "n", "s", "m", "i", "s", "s", "i", "o", "n", "/", "r", "p", "c">>

ContentTypeHeader == <<"C", "o", "n", "t", "e", "n", "t", "-", "T", "y", "p", "e">>

ApplicationJson == <<"a", "p", "p", "l", "i", "c", "a", "t", "i", "o", "n", "/", "j", "s", "o", "n">>

BodyKey == <<"b", "o", "d", "y">>

\* JSON.stringify({ method: "session-stats", arguments: {} })
SessionStatsBody ==
  <<"{", "\"", "m", "e", "t", "h", "o", "d", "\"", ":", "\"", "s", "e", "s", "s", "i", "o", "n", "-", "s", "t", "a", "t", "s", "\"", ",", "\"", "a", "r", "g", "u", "m", "e", "n", "t", "s", "\"", ":", "{", "}", "}">>

SessionIdHeader ==
  <<"X", "-", "T", "r", "a", "n", "s", "m", "i", "s", "s", "i", "o", "n", "-", "S", "e", "s", "s", "i", "o", "n", "-", "I", "d">>

\* The text the regular expression looks for before the id.
SessionIdLabel == SessionIdHeader \o <<":", " ">>

\* The options of transmissionRequest: a POST of the request as JSON, with
\* the X-Transmission-Session-Id header when the widget has a session id.
TransmissionOptions(id) ==
  [k \in {MethodKey, HeadersKey, BodyKey} |->
     IF k = MethodKey THEN <<"P", "O", "S", "T">>
     ELSE IF k = BodyKey THEN SessionStatsBody
     ELSE IF Truthy(id)
          THEN [h \in {ContentTypeHeader, SessionIdHeader} |->
                  IF h = ContentTypeHeader THEN ApplicationJson ELSE id]
          ELSE [h \in {ContentTypeHeader} |-> ApplicationJson]]

\* responseText.match(/X-Transmission-Session-Id: ([a-zA-Z0-9]+)/): the
\* letters and digits that follow the first label that has one after it, or
\* null.
SessionIdMatch(text) ==
  LET n == Len(SessionIdLabel)
      starts == {i \in 1..Len(text) :
                   /\ i + n <= Len(text)
                   /\ SubSeq(text, i, i + n - 1) = SessionIdLabel
                   /\ text[i + n] \in Alphanumeric}
  IN  IF starts = {}
      THEN undefined
      ELSE LET i == CHOOSE x \in starts : \A y \in starts : x <= y
               ends == {j \in (i + n)..Len(text) : \A k \in (i + n)..j : text[k] \in Alphanumeric}
               e == CHOOSE x \in ends : \A y \in ends : y <= x
           IN  SubSeq(text, i + n, e)

\* response.ok, or the status is one of the item's successCodes.
SuccessCodes == <<"s", "u", "c", "c", "e", "s", "s", "C", "o", "d", "e", "s">>

IsSuccess(item, status) ==
  IF SuccessCodes \in DOMAIN item
  THEN status \in item[SuccessCodes]
  ELSE status \in 200..299

\* The session id transmissionRequest takes from the error of a failed
\* request: the x-transmission-session-id header, else the one in the text.
LowerSessionIdHeader == toLowerCase(SessionIdHeader)

ExtractedSessionId(answer) ==
  LET id == MapGet(answer.headers, LowerSessionIdHeader)
  IN  IF ~Truthy(id) /\ Truthy(answer.text)
      THEN SessionIdMatch(answer.text)
      ELSE id

\* What the fetch of a request can come to: status 0 stands for a fetch
\* that rejects, result for the result of the JSON of the body.
NoAnswer == [status |-> 0, headers |-> EmptyMap, text |-> <<>>, result |-> ""]

Rejected == [status |-> 0, headers |-> EmptyMap, text |-> <<>>, result |-> "rejected"]

StatsAnswer == [status |-> 200, headers |-> EmptyMap, text |-> <<>>, result |-> "success"]

RpcFailure == [status |-> 200, headers |-> EmptyMap, text |-> <<>>, result |-> "no method name"]

\* 409 with the session id A1 in the header, and another in the text.
ConflictHeader ==
  [status |-> 409,
   headers |-> [h \in {LowerSessionIdHeader} |-> <<"A", "1">>],
   text |-> SessionIdLabel \o <<"B", "2">>,
   result |-> ""]

\* 409 with the session id B2 in the text only: <code>X-Transmission-Session-Id: B2</code>
ConflictText ==
  [status |-> 409,
   headers |-> EmptyMap,
   text |-> <<"<", "c", "o", "d", "e", ">">> \o SessionIdLabel \o <<"B", "2", "<", "/", "c", "o", "d", "e", ">">>,
   result |-> ""]

\* 409 with no session id: the label is followed by no letter or digit.
ConflictBare ==
  [status |-> 409, headers |-> EmptyMap, text |-> SessionIdLabel \o <<"-">>, result |-> ""]

\* 500, from a server that sends a session id with it.
ServerFailure ==
  [status |-> 500,
   headers |-> [h \in {LowerSessionIdHeader} |-> <<"A", "1">>],
   text |-> <<"e", "r", "r">>,
   result |-> ""]

TransmissionAnswers ==
  {Rejected, StatsAnswer, RpcFailure, ConflictHeader, ConflictText, ConflictBare, ServerFailure}

\* The fetch of the helper throws: it rejected, or the status is no success.
Throws(item, answer) == answer.status = 0 \/ ~IsSuccess(item, answer.status)

\* (mutant) a retry after every failure that gives a session id
NeedsSessionAlways(answer) == Truthy(ExtractedSessionId(answer))

\* error.status === 409, and a session id was found.
NeedsSession(answer) == answer.status = 409 /\ Truthy(ExtractedSessionId(answer))

\* getStats on the response of transmissionRequest: error is false when the
\* result is "success", true otherwise.
StatsError(answer) == IF answer.result = "success" THEN JsFalse ELSE JsTrue

IdleRun == [pc |-> "idle", fetches |-> 0, answer |-> NoAnswer]

-----------------------------------------------------------------------------
(* The Unifi widget *)

\* loginEndpoint of an item that is not marked legacy: false.
LoginEndpoint == <<"/", "a", "p", "i", "/", "l", "o", "g", "i", "n">>

\* `${this.prefix}/api/s/${this.site}/stat/sta` with no prefix, default site
StatStaPath == <<"/", "a", "p", "i", "/", "s", "/", "d", "e", "f", "a", "u", "l", "t", "/", "s", "t", "a", "t", "/", "s", "t", "a">>

StatDevicePath == <<"/", "a", "p", "i", "/", "s", "/", "d", "e", "f", "a", "u", "l", "t", "/", "s", "t", "a", "t", "/", "d", "e", "v", "i", "c", "e">>

\* JSON.stringify({ username: "u", password: "u" })
LoginBody == <<"{", "\"", "u", "s", "e", "r", "n", "a", "m", "e", "\"", ":", "\"", "u", "\"", ",", "\"", "p", "a", "s", "s", "w", "o", "r", "d", "\"", ":", "\"", "u", "\"", "}">>

\* The init of the login request.
LoginInit ==
  [k \in {MethodKey, HeadersKey, BodyKey} |->
     IF k = MethodKey THEN <<"P", "O", "S", "T">>
     ELSE IF k = BodyKey THEN LoginBody
     ELSE [h \in {ContentTypeHeader} |-> ApplicationJson]]

\* What the controller answers: data, JSON that is null, a refusal, and no
\* answer at all.
UnifiData == [status |-> 200, headers |-> EmptyMap, text |-> <<>>, result |-> "data"]

UnifiNull == [status |-> 200, headers |-> EmptyMap, text |-> <<>>, result |-> "null"]

UnifiRefusal == [status |-> 401, headers |-> EmptyMap, text |-> <<>>, result |-> ""]

UnifiAnswers == {UnifiData, UnifiNull, UnifiRefusal, Rejected}

StatNames == {"sta", "device"}

IdleFetchData ==
  [pc |-> "idle", held |-> FALSE, loggedIn |-> FALSE, pending |-> {}, unusable |-> FALSE]

-----------------------------------------------------------------------------
(* The two relays side by side: what they start from *)

Relays == {"standalone", "vite"}

NoRequest == [url |-> <<>>, method |-> "", headers |-> EmptyMap]

IdleSide ==
  [table |-> EmptyMap, pc |-> [c \in Calls |-> "idle"], cookie |-> [c \in Calls |-> undefined]]

\* req.headers of a request with a JSON body.
JsonHeaders == [k \in {ContentType} |-> ApplicationJson]

-----------------------------------------------------------------------------
(* State *)

VARIABLES
  relay,                      \* which of the two programs the process runs
  env,                        \* process.env.NODE_TLS_REJECT_UNAUTHORIZED
  sessionCookies,             \* the Session Table: target domain -> cookie string
  pc,                         \* where each handler invocation stands
  targetUrl,                  \* the handler's targetUrl, the URL of its fetch
  targetDomain,               \* the handler's targetDomain
  forwardHeaders,             \* the headers of the handler's fetch
  originalRejectUnauthorized, \* the handler's saved setting
  reqHeaders,                 \* req.headers of the request the handler serves
  res,                        \* the reply to the inbound request
  response,                   \* the handler's response, as the upstream sent it
  \* the world around the relay, fixed as the process starts
  clientUrls,                 \* the URLs clients request
  clientHeaders,              \* the header sets clients send
  clientMethods,              \* the methods clients use
  upstreamSetCookies,         \* the Set-Cookie values upstream servers answer with
  upstreamResponses,          \* what else upstream servers answer with
  \* history variables: written, never read, by the actions
  initialEnv,                 \* env as the process started
  solo,                       \* the call that started with no other in progress, and env before it
  wrote,                      \* the calls in progress that have called sessionCookies.set
  captured,                   \* the target domains a call that wrote the table has returned for
  reqUrl,                     \* per handler, req.originalUrl (req.url) of the request it serves, or
                              \* of the request it last answered without an outbound call
  lastSetCookie,              \* per target domain, the Set-Cookie value of the last write
  \* a widget in the browser
  thisComponent,              \* which component it is: its fetch helper is the mixin's, or
                              \* the override of the Unifi component
  thisItem,                   \* this.item, its configuration
  thisProxy,                  \* this.proxy, the proxy configuration
  thisEndpoint,               \* this.endpoint
  fetchPath,                  \* the path of its last call of the helper
  fetchInit,                  \* the init of its last call of the helper
  fetchUrl,                   \* the url of the fetch its last call made
  fetchOptions,               \* the options of the fetch its last call made
  \* the Transmission widget
  sessionId,                  \* this.sessionId
  error,                      \* this.error
  stats,                      \* per getStats run: where it stands, the fetches it has
                              \* issued and what its last fetch came to
  \* the Unifi widget
  sessionCookie,              \* this.sessionCookie
  serverError,                \* this.serverError
  fetchData,                  \* per fetchData run: where it stands, whether sessionCookie
                              \* was set as it began, whether its login has succeeded,
                              \* the stat requests it awaits, whether one gave null
  failedSince,                \* history: a run has failed and none has begun since
  \* the two relays side by side, before the same clients and upstream
  sides,                      \* per relay: its Session Table, where its handler of each
                              \* request stands, the cookie header of the call it made
  arrived                     \* the request each handler serves, while one serves it

widget == <<thisComponent, thisItem, thisProxy, thisEndpoint,
          fetchPath, fetchInit, fetchUrl, fetchOptions, sessionId, error, stats,
          sessionCookie, serverError, fetchData, failedSince>>

\* The state of one relay.
single == <<relay, env, sessionCookies, pc, targetUrl, targetDomain, forwardHeaders,
           originalRejectUnauthorized, reqHeaders, res, response, clientUrls,
           clientHeaders, clientMethods, upstreamSetCookies, upstreamResponses,
           initialEnv, solo, wrote, captured, reqUrl, lastSetCookie>>

\* The state of the relays.
server == <<single, sides, arrived>>

\* What no step of a relay changes.
world == <<relay, clientUrls, clientHeaders, clientMethods, upstreamSetCookies,
           upstreamResponses, initialEnv, widget, sides, arrived>>

vars == <<relay, env, sessionCookies, pc, targetUrl, targetDomain, forwardHeaders,
          originalRejectUnauthorized, reqHeaders, res, response, clientUrls, clientHeaders,
          clientMethods, upstreamSetCookies, upstreamResponses, initialEnv, solo, wrote, captured,
          reqUrl, lastSetCookie, thisComponent, thisItem, thisProxy, thisEndpoint,
          fetchPath, fetchInit, fetchUrl, fetchOptions, sessionId, error, stats,
          sessionCookie, serverError, fetchData, failedSince, sides, arrived>>

NoReply == [status |-> 0, headers |-> EmptyMap, error |-> "", sent |-> FALSE]

NoCall == <<0, undefined>>

NoResponse == [status |-> 0, headers |-> EmptyMap, length |-> <<>>]

\* A handler invocation that has begun and has not returned.
Active(c) == pc[c] \notin {"idle", "done"}

\* The Transmission widget as its data() makes it.
NoStats ==
  /\ sessionId = undefined
  /\ error = undefined
  /\ stats = [r \in Runs |-> IdleRun]

\* The Unifi widget as its data() makes it.
NoFetchData ==
  /\ sessionCookie = undefined
  /\ serverError = JsFalse
  /\ fetchData = [r \in Runs |-> IdleFetchData]
  /\ failedSince = FALSE

\* No widget is mounted.
NoWidget ==
  /\ NoStats
  /\ NoFetchData
  /\ thisComponent = "none"
  /\ thisItem = EmptyMap
  /\ thisProxy = EmptyMap
  /\ thisEndpoint = undefined
  /\ fetchPath = undefined
  /\ fetchInit = EmptyMap
  /\ fetchUrl = undefined
  /\ fetchOptions = EmptyMap

\* The relay as the process starts: no call, an empty Session Table.
Started ==
  /\ initialEnv = env
  /\ sessionCookies = EmptyMap
  /\ pc = [c \in Calls |-> "idle"]
  /\ targetUrl = [c \in Calls |-> undefined]
  /\ targetDomain = [c \in Calls |-> undefined]
  /\ forwardHeaders = [c \in Calls |-> EmptyMap]
  /\ originalRejectUnauthorized = [c \in Calls |-> undefined]
  /\ reqHeaders = [c \in Calls |-> EmptyMap]
  /\ res = [c \in Calls |-> NoReply]
  /\ response = [c \in Calls |-> NoResponse]
  /\ solo = NoCall
  /\ wrote = {}
  /\ captured = {}
  /\ reqUrl = [c \in Calls |-> undefined]
  /\ lastSetCookie = EmptyMap
  /\ sides = [name \in Relays |-> IdleSide]
  /\ arrived = [c \in Calls |-> NoRequest]

\* The standalone relay before one upstream host, which answers with one
\* cookie, with two, or with a Set-Cookie header that has no value; requests
\* with no usable target too. The process is started with the TLS variable
\* unset.
Init ==
  /\ relay = "standalone"
  /\ env = undefined
  /\ clientUrls = {UrlAEncoded, UrlEmpty, UrlNoScheme}
  /\ clientHeaders = {EmptyMap}
  /\ clientMethods = {"GET"}
  /\ upstreamSetCookies = {<<>>, SetCookieOne, SetCookieTwo}
  /\ upstreamResponses = {PlainResponse}
  /\ Started
  /\ NoWidget

\* The standalone relay before two upstream hosts, each answering with one
\* cookie or with two.
InitHosts ==
  /\ relay = "standalone"
  /\ env = undefined
  /\ clientUrls = {UrlA, UrlB}
  /\ clientHeaders = {EmptyMap}
  /\ clientMethods = {"GET"}
  /\ upstreamSetCookies = {SetCookieOne, SetCookieTwo}
  /\ upstreamResponses = {PlainResponse}
  /\ Started
  /\ NoWidget

\* Either relay before one upstream host, which sets one cookie or one with
\* no name=value; requests with and without a cookie header of their own.
InitInbound ==
  /\ relay \in {"standalone", "vite"}
  /\ env = undefined
  /\ clientUrls = {UrlA}
  /\ clientHeaders = RequestHeaders
  /\ clientMethods = {"GET", "POST"}
  /\ upstreamSetCookies = {SetCookieOne, SetCookieNoPair}
  /\ upstreamResponses = {PlainResponse}
  /\ Started
  /\ NoWidget

\* Either relay, started with any value of the TLS variable, before an https
\* and an http upstream, which set no cookie; requests with no usable target
\* too.
InitTls ==
  /\ relay \in {"standalone", "vite"}
  /\ env \in EnvValues
  /\ clientUrls = {UrlA, UrlB, UrlEmpty, UrlBadEscape, UrlOther}
  /\ clientHeaders = {EmptyMap}
  /\ clientMethods = {"GET", "POST"}
  /\ upstreamSetCookies = {undefined}
  /\ upstreamResponses = {PlainResponse}
  /\ Started
  /\ NoWidget

\* The standalone relay before two upstream hosts, which answer with a
\* cookie or with no Set-Cookie header at all.
InitLifecycle ==
  /\ relay = "standalone"
  /\ env = undefined
  /\ clientUrls = {UrlA, UrlB}
  /\ clientHeaders = {EmptyMap}
  /\ clientMethods = {"GET"}
  /\ upstreamSetCookies = {undefined, SetCookieOne}
  /\ upstreamResponses = {PlainResponse}
  /\ Started
  /\ NoWidget

\* Either relay before upstream hosts that set no cookie; the targets come
\* written as they are, percent-encoded once or twice, with one slash or
\* two after the scheme.
InitTargets ==
  /\ relay \in {"standalone", "vite"}
  /\ env = undefined
  /\ clientUrls = {UrlA, UrlAEncoded, UrlASingle, UrlTwice, UrlB}
  /\ clientHeaders = {EmptyMap}
  /\ clientMethods = {"GET", "POST"}
  /\ upstreamSetCookies = {undefined}
  /\ upstreamResponses = {PlainResponse}
  /\ Started
  /\ NoWidget

\* Either relay before one upstream host whose responses differ in status,
\* in encoding and in the headers they carry.
InitRelay ==
  /\ relay \in {"standalone", "vite"}
  /\ env = undefined
  /\ clientUrls = {UrlA}
  /\ clientHeaders = {EmptyMap}
  /\ clientMethods = {"GET", "POST"}
  /\ upstreamSetCookies = {SetCookieOne}
  /\ upstreamResponses = {GzipResponse, ChunkedResponse, SizedResponse}
  /\ Started
  /\ NoWidget

\* The standalone relay before one upstream host that answers 200 or 404;
\* requests with no target and with a target that is no URL too.
InitAnswers ==
  /\ relay = "standalone"
  /\ env = undefined
  /\ clientUrls = {UrlA, UrlEmpty, UrlNoScheme, UrlBadEscape}
  /\ clientHeaders = {EmptyMap}
  /\ clientMethods = {"GET"}
  /\ upstreamSetCookies = {undefined}
  /\ upstreamResponses = {PlainResponse, ChunkedResponse}
  /\ Started
  /\ NoWidget

\* The Transmission widget, mounted over the relay or not, with a user and
\* password or without.
InitTransmission ==
  /\ relay = "standalone"
  /\ env = undefined
  /\ clientUrls = {}
  /\ clientHeaders = {}
  /\ clientMethods = {}
  /\ upstreamSetCookies = {}
  /\ upstreamResponses = {}
  /\ Started
  /\ NoStats
  /\ NoFetchData
  /\ thisComponent = "Transmission"
  /\ thisItem \in {i \in Items : UseCredentials \notin DOMAIN i /\ HeadersKey \notin DOMAIN i}
  /\ thisProxy = EmptyMap
  /\ thisEndpoint = EndpointOf(thisItem)
  /\ fetchPath = undefined
  /\ fetchInit = EmptyMap
  /\ fetchUrl = undefined
  /\ fetchOptions = EmptyMap

\* The Unifi widget, mounted over the relay or not.
InitUnifi ==
  /\ relay = "standalone"
  /\ env = undefined
  /\ clientUrls = {}
  /\ clientHeaders = {}
  /\ clientMethods = {}
  /\ upstreamSetCookies = {}
  /\ upstreamResponses = {}
  /\ Started
  /\ NoStats
  /\ NoFetchData
  /\ thisComponent = "Unifi"
  /\ thisItem \in {i \in Items : /\ UseCredentials \notin DOMAIN i
                                 /\ HeadersKey \notin DOMAIN i
                                 /\ Username \in DOMAIN i}
  /\ thisProxy = EmptyMap
  /\ thisEndpoint = EndpointOf(thisItem)
  /\ fetchPath = undefined
  /\ fetchInit = EmptyMap
  /\ fetchUrl = undefined
  /\ fetchOptions = EmptyMap

\* The two relays side by side before one upstream host: requests with and
\* without a JSON body, targets written in several ways and no target.
InitSides ==
  /\ relay = "standalone"
  /\ env = undefined
  /\ clientUrls = {UrlA, UrlASingle, UrlEmpty}
  /\ clientHeaders = {EmptyMap, JsonHeaders}
  /\ clientMethods = {"GET", "POST"}
  /\ upstreamSetCookies = {undefined, SetCookieOne}
  /\ upstreamResponses = {PlainResponse}
  /\ Started
  /\ NoWidget

\* A widget whose requests go through the standalone relay, and the relay
\* as it starts.
InitRoundTrip ==
  /\ relay = "standalone"
  /\ env = undefined
  /\ clientUrls = {}
  /\ clientHeaders = {EmptyMap}
  /\ clientMethods = {"GET"}
  /\ upstreamSetCookies = {undefined}
  /\ upstreamResponses = {PlainResponse}
  /\ Started
  /\ NoStats
  /\ NoFetchData
  /\ thisComponent \in {"service", "Unifi"}
  /\ thisItem = Spread([k \in {ItemUrlKey} |-> ItemUrl], [k \in {UseProxy} |-> JsTrue])
  /\ thisProxy = EmptyMap
  /\ thisEndpoint = EndpointOf(thisItem)
  /\ fetchPath = undefined
  /\ fetchInit = EmptyMap
  /\ fetchUrl = undefined
  /\ fetchOptions = EmptyMap

\* A widget of each configuration, mounted: created() has set its endpoint.
\* No request has reached the relay.
InitWidget ==
  /\ relay = "standalone"
  /\ env = undefined
  /\ clientUrls = {}
  /\ clientHeaders = {}
  /\ clientMethods = {}
  /\ upstreamSetCookies = {}
  /\ upstreamResponses = {}
  /\ Started
  /\ NoStats
  /\ NoFetchData
  /\ thisComponent \in {"service", "Unifi"}
  /\ thisItem \in Items
  /\ thisProxy \in Proxies
  /\ thisEndpoint = EndpointOf(thisItem)
  /\ fetchPath = undefined
  /\ fetchInit = EmptyMap
  /\ fetchUrl = undefined
  /\ fetchOptions = EmptyMap

-----------------------------------------------------------------------------
(* What the two handlers have in common *)

\* res.status(code).json({error, ...}), or res.statusCode = code and res.end:
\* the headers set on res before stay.
JsonReply(reply, code, message) ==
  [reply EXCEPT !.status = code, !.error = message, !.sent = TRUE]

\* (mutant) a body that is never sent
SentReplyNever(reply, length) ==
  [reply EXCEPT !.headers = SetHeader(@, ContentLengthHeader, length)]

\* res.send(buffer), or res.setHeader("Content-Length", ...), res.write and
\* res.end: the body goes out under a Content-Length that is its length.
SentReply(reply, length) ==
  [reply EXCEPT !.headers = SetHeader(@, ContentLengthHeader, length), !.sent = TRUE]

\* (mutant) the finally block without its delete branch
RestoredEnvNoDelete(saved) == IF saved # undefined THEN saved ELSE <<"0">>

\* The finally block: the saved setting is put back, or the variable deleted.
RestoredEnv(saved) == IF saved # undefined THEN saved ELSE undefined

\* (mutant) a set that appends to what the domain has stored already
StoreCookiesMerged(table, domain, cookies) ==
  MapSet(table, domain,
         IF domain \in DOMAIN table
         THEN table[domain] \o <<";", " ">> \o cookies
         ELSE cookies)

\* (mutant) a set that keeps the value a domain has stored already
StoreCookiesFirstWins(table, domain, cookies) ==
  IF domain \in DOMAIN table THEN table ELSE MapSet(table, domain, cookies)

\* (mutant) a set that writes the value under every key of the table
StoreCookiesEveryHost(table, domain, cookies) ==
  [k \in DOMAIN table \cup {domain} |-> cookies]

\* (mutant) a set that starts the table afresh
StoreCookiesFresh(table, domain, cookies) == [k \in {domain} |-> cookies]

\* sessionCookies.set(targetDomain, cookies)
StoreCookies(table, domain, cookies) == MapSet(table, domain, cookies)

\* The handler returns: its locals are gone.
Return(c) ==
  /\ pc' = [pc EXCEPT ![c] = "done"]
  /\ targetUrl' = [targetUrl EXCEPT ![c] = undefined]
  /\ targetDomain' = [targetDomain EXCEPT ![c] = undefined]
  /\ forwardHeaders' = [forwardHeaders EXCEPT ![c] = EmptyMap]
  /\ originalRejectUnauthorized' = [originalRejectUnauthorized EXCEPT ![c] = undefined]
  /\ reqHeaders' = [reqHeaders EXCEPT ![c] = EmptyMap]
  /\ response' = [response EXCEPT ![c] = NoResponse]
  /\ captured' = IF c \in wrote THEN captured \cup {targetDomain[c]} ELSE captured
  /\ wrote' = wrote \ {c}
  /\ solo' = IF solo[1] = c THEN NoCall ELSE solo

\* A request that is answered before any outbound call.
Reject(c, reply) ==
  /\ res' = [res EXCEPT ![c] = reply]
  /\ Return(c)
  /\ UNCHANGED <<env, sessionCookies, world, lastSetCookie>>

\* The handler begins to serve a request that has a target: what it keeps.
Begin(c, headers, url, domain, outbound) ==
  /\ reqHeaders' = [reqHeaders EXCEPT ![c] = headers]
  /\ targetUrl' = [targetUrl EXCEPT ![c] = url]
  /\ targetDomain' = [targetDomain EXCEPT ![c] = domain]
  /\ forwardHeaders' = [forwardHeaders EXCEPT ![c] = outbound]
  /\ res' = [res EXCEPT ![c] = NoReply]
  /\ solo' = IF \A d \in Calls : ~Active(d) THEN <<c, env>> ELSE NoCall
  /\ UNCHANGED <<sessionCookies, response, world, wrote, captured, lastSetCookie>>

\* The upstream response's headers are in: the cookie capture, the copying
\* of headers and status, up to `await response.arrayBuffer()`.
Capture(c) ==
  /\ \E setCookieHeaders \in upstreamSetCookies, r \in upstreamResponses :
       /\ response' = [response EXCEPT
                         ![c] = [r EXCEPT !.headers = UpstreamHeaders(setCookieHeaders, r)]]
       /\ IF Truthy(setCookieHeaders)
          THEN /\ sessionCookies' =
                    StoreCookies(sessionCookies, targetDomain[c], CaptureCookies(setCookieHeaders))
               /\ wrote' = wrote \cup {c}
               /\ lastSetCookie' = MapSet(lastSetCookie, targetDomain[c], setCookieHeaders)
          ELSE UNCHANGED <<sessionCookies, wrote, lastSetCookie>>
       /\ res' = [res EXCEPT
                    ![c] = [status |-> r.status,
                            headers |-> RelayedHeaders(
                                          HeadersObject(UpstreamHeaders(setCookieHeaders, r))),
                            error |-> "", sent |-> FALSE]]
  /\ pc' = [pc EXCEPT ![c] = "body"]
  /\ UNCHANGED <<targetUrl, targetDomain, forwardHeaders, reqHeaders, world, solo, reqUrl,
                 captured>>

-----------------------------------------------------------------------------
(* The standalone relay's handler, app.use("*", async (req, res) => ...) *)

\* The handler from its start to `await fetch(targetUrl, fetchOptions)`.
Receive(c) ==
  /\ relay = "standalone"
  /\ pc[c] \in {"idle", "done"}
  /\ \E originalUrl \in clientUrls, headers \in clientHeaders, method \in clientMethods :
       /\ reqUrl' = [reqUrl EXCEPT ![c] = originalUrl]
       /\ \E proxyPath \in {ProxyPath(originalUrl)} :
           IF proxyPath = <<>>
           THEN Reject(c, JsonReply(NoReply, 400, "No target URL provided"))
           ELSE \E url \in {TargetUrl(proxyPath)} :
                  \E domain \in {IF IsError(url) THEN url ELSE UrlHost(url)} :
                    IF IsError(domain)
                    THEN Reject(c, JsonReply(NoReply, 500, "Server error"))
                    ELSE /\ Begin(c, headers, url, domain,
                                  ForwardHeaders(headers, MapGet(sessionCookies, domain)))
                         /\ originalRejectUnauthorized' =
                              [originalRejectUnauthorized EXCEPT ![c] = env]
                         /\ env' = <<"0">>
                         /\ pc' = [pc EXCEPT ![c] = "fetch"]

\* fetch resolves: from the cookie capture to `await response.arrayBuffer()`.
FetchResolve(c) ==
  /\ relay = "standalone"
  /\ pc[c] = "fetch"
  /\ Capture(c)
  /\ UNCHANGED <<env, originalRejectUnauthorized>>

\* The inner catch and finally blocks, or the normal end of the try block
\* followed by finally: the reply is sent and the setting restored.
Finish(c, reply) ==
  /\ res' = [res EXCEPT ![c] = reply]
  /\ env' = RestoredEnv(originalRejectUnauthorized[c])
  /\ Return(c)
  /\ reqUrl' = [reqUrl EXCEPT ![c] = undefined]
  /\ UNCHANGED <<sessionCookies, world, lastSetCookie>>

\* fetch rejects: catch (fetchError), then finally.
FetchReject(c) ==
  /\ relay = "standalone"
  /\ pc[c] = "fetch"
  /\ Finish(c, JsonReply(res[c], 500, "Proxy request failed"))

\* response.arrayBuffer() resolves: res.send, then finally.
BodyResolve(c) ==
  /\ relay = "standalone"
  /\ pc[c] = "body"
  /\ Finish(c, SentReply(res[c], response[c].length))

\* response.arrayBuffer() rejects: catch (fetchError), then finally.
BodyReject(c) ==
  /\ relay = "standalone"
  /\ pc[c] = "body"
  /\ Finish(c, JsonReply(res[c], 500, "Proxy request failed"))

-----------------------------------------------------------------------------
(* The development server's handler, server.middlewares.use(async ...) *)

\* The catch block: 500 and the error's message.
ViteFail(c) ==
  /\ res' = [res EXCEPT ![c] = JsonReply(res[c], 500, "Proxy request failed")]
  /\ Return(c)
  /\ reqUrl' = [reqUrl EXCEPT ![c] = undefined]
  /\ UNCHANGED <<sessionCookies, world, lastSetCookie>>

\* The https branch saves and clears the setting around its fetch; the
\* other branch fetches as things are.
ViteStartFetch(c, url) ==
  /\ IF startsWith(url, HttpsColon)
     THEN /\ originalRejectUnauthorized' = [originalRejectUnauthorized EXCEPT ![c] = env]
          /\ env' = <<"0">>
     ELSE UNCHANGED <<env, originalRejectUnauthorized>>
  /\ pc' = [pc EXCEPT ![c] = "fetch"]

\* The handler from its start to its first await: that of the request body
\* for POST, PUT and PATCH, that of fetch for the other methods.
ViteReceive(c) ==
  /\ relay = "vite"
  /\ pc[c] \in {"idle", "done"}
  /\ \E url \in clientUrls, headers \in clientHeaders, method \in clientMethods :
       /\ reqUrl' = [reqUrl EXCEPT ![c] = url]
       /\ IF ~startsWith(url, SlashApiProxyPrefix)
          THEN Reject(c, NoReply)
          ELSE \E target \in {ViteTargetUrl(ViteProxyPath(url))} :
                 \E domain \in {IF IsError(target) THEN target ELSE UrlHost(target)} :
                   IF IsError(domain)
                   THEN Reject(c, JsonReply(NoReply, 500, "Proxy request failed"))
                   ELSE /\ Begin(c, headers, target, domain,
                                 ViteFetchHeaders(
                                   ViteForwardHeaders(headers, MapGet(sessionCookies, domain))))
                        /\ IF method \in {"POST", "PUT", "PATCH"}
                           THEN /\ pc' = [pc EXCEPT ![c] = "upload"]
                                /\ UNCHANGED <<env, originalRejectUnauthorized>>
                           ELSE ViteStartFetch(c, target)

\* The request body has been read: on to `await fetch`.
ViteUpload(c) ==
  /\ relay = "vite"
  /\ pc[c] = "upload"
  /\ ViteStartFetch(c, targetUrl[c])
  /\ UNCHANGED <<sessionCookies, reqUrl, targetUrl, targetDomain, forwardHeaders,
                 reqHeaders, res, response, world, solo, wrote, captured, lastSetCookie>>

\* Reading the request body fails: catch.
ViteUploadReject(c) ==
  /\ relay = "vite"
  /\ pc[c] = "upload"
  /\ ViteFail(c)
  /\ UNCHANGED env

\* What the finally block of the https branch leaves in env.
ViteAfterFetch(c) ==
  IF startsWith(targetUrl[c], HttpsColon)
  THEN RestoredEnv(originalRejectUnauthorized[c])
  ELSE env

\* fetch resolves: finally (https), then from the cookie capture to
\* `await response.arrayBuffer()`.
ViteFetchResolve(c) ==
  /\ relay = "vite"
  /\ pc[c] = "fetch"
  /\ env' = ViteAfterFetch(c)
  /\ Capture(c)
  /\ UNCHANGED originalRejectUnauthorized

\* fetch rejects: finally (https), then catch.
ViteFetchReject(c) ==
  /\ relay = "vite"
  /\ pc[c] = "fetch"
  /\ env' = ViteAfterFetch(c)
  /\ ViteFail(c)

\* response.arrayBuffer() resolves: res.write and res.end.
ViteBodyResolve(c) ==
  /\ relay = "vite"
  /\ pc[c] = "body"
  /\ res' = [res EXCEPT ![c] = SentReply(res[c], response[c].length)]
  /\ Return(c)
  /\ reqUrl' = [reqUrl EXCEPT ![c] = undefined]
  /\ UNCHANGED <<env, sessionCookies, world, lastSetCookie>>

\* response.arrayBuffer() rejects: catch.
ViteBodyReject(c) ==
  /\ relay = "vite"
  /\ pc[c] = "body"
  /\ ViteFail(c)
  /\ UNCHANGED env

-----------------------------------------------------------------------------
(* The two relays side by side *)

\* The inbound request has a body that express.json() reads before the
\* standalone handler is called: a body of type application/json.
ParsesBody(req) ==
  /\ req.method \in {"POST", "PUT", "PATCH"}
  /\ MapGet(req.headers, ContentType) = ApplicationJson

\* The development server's handler reads the body of the request itself,
\* after it has made its headers.
ReadsBody(req) == req.method \in {"POST", "PUT", "PATCH"}

\* The target domain of the call a relay makes for a request, or an error
\* when it makes none.
CallDomain(name, req) ==
  IF name = "standalone"
  THEN IF ProxyPath(req.url) = <<>>
       THEN TypeError
       ELSE LET target == TargetUrl(ProxyPath(req.url))
            IN  IF IsError(target) THEN target ELSE UrlHost(target)
  ELSE LET target == ViteTargetUrl(ViteProxyPath(req.url))
       IN  IF IsError(target) THEN target ELSE UrlHost(target)

\* The cookie header of the call a relay makes for a request, as the handler
\* finds the table.
CallCookie(name, table, req) ==
  LET storedCookies == MapGet(table, CallDomain(name, req))
  IN  IF name = "standalone"
      THEN MapGet(ForwardHeaders(req.headers, storedCookies), Cookie)
      ELSE MapGet(ViteFetchHeaders(ViteForwardHeaders(req.headers, storedCookies)), Cookie)

\* The handler of a relay runs for request c up to its first await: it
\* answers with an error, or makes its headers and awaits its fetch, or, in
\* the development server, the body of the request.
RunHandler(name, side, c, req) ==
  IF IsError(CallDomain(name, req))
  THEN [side EXCEPT !.pc[c] = "done", !.cookie[c] = undefined]
  ELSE [side EXCEPT !.pc[c] = IF name = "vite" /\ ReadsBody(req) THEN "upload" ELSE "fetch",
                    !.cookie[c] = CallCookie(name, side.table, req)]

\* The head of request c has arrived at a relay.
Arrival(name, side, c, req) ==
  IF name = "standalone" /\ ParsesBody(req)
  THEN [side EXCEPT !.pc[c] = "parse", !.cookie[c] = undefined]
  ELSE RunHandler(name, side, c, req)

\* The body of request c has arrived in full at a relay.
BodyArrival(name, side, c, req) ==
  IF side.pc[c] = "parse"
  THEN RunHandler(name, side, c, req)
  ELSE IF side.pc[c] = "upload"
       THEN [side EXCEPT !.pc[c] = "fetch"]
       ELSE side

\* The upstream has answered the call a relay made for request c.
Response(name, side, c, req, setCookieHeaders) ==
  IF side.pc[c] # "fetch"
  THEN side
  ELSE [side EXCEPT
          !.pc[c] = "done",
          !.cookie[c] = undefined,
          !.table = IF Truthy(setCookieHeaders)
                    THEN StoreCookies(@, CallDomain(name, req), CaptureCookies(setCookieHeaders))
                    ELSE @]

-----------------------------------------------------------------------------
(* The two relays before the same requests and the same upstream responses *)

\* The head of a request arrives at both relays.
Arrives(c) ==
  /\ \A name \in Relays : sides[name].pc[c] \in {"idle", "done"}
  /\ \E url \in clientUrls, headers \in clientHeaders, method \in clientMethods :
       LET req == [url |-> url, method |-> method, headers |-> headers]
       IN  /\ sides' = [name \in Relays |-> Arrival(name, sides[name], c, req)]
           /\ arrived' = [arrived EXCEPT
                            ![c] = IF \A name \in Relays : sides'[name].pc[c] = "done"
                                   THEN NoRequest
                                   ELSE req]
  /\ UNCHANGED <<single, widget>>

\* The body of a request has arrived in full at both relays.
BodyArrives(c) ==
  /\ \E name \in Relays : sides[name].pc[c] \in {"parse", "upload"}
  /\ sides' = [name \in Relays |-> BodyArrival(name, sides[name], c, arrived[c])]
  /\ UNCHANGED <<single, widget, arrived>>

\* The upstream answers the call each relay made for a request, with the
\* same response.
Responds(c) ==
  /\ \A name \in Relays : sides[name].pc[c] = "fetch"
  /\ \E setCookieHeaders \in upstreamSetCookies :
       sides' = [name \in Relays |->
                   Response(name, sides[name], c, arrived[c], setCookieHeaders)]
  /\ arrived' = [arrived EXCEPT ![c] = NoRequest]
  /\ UNCHANGED <<single, widget>>

NextSides ==
  \E c \in Calls :
    \/ Arrives(c)
    \/ BodyArrives(c)
    \/ Responds(c)

-----------------------------------------------------------------------------
(* The widget *)

\* The widget calls this.fetch(path, init): the helper makes its fetch.
WidgetFetch ==
  /\ thisComponent # "none"
  /\ \E p \in Paths, i \in Inits :
       LET call == fetch(thisComponent, thisProxy, thisItem, thisEndpoint, p, i)
       IN  /\ fetchPath' = p
           /\ fetchInit' = i
           /\ fetchUrl' = call.url
           /\ fetchOptions' = call.options
  /\ UNCHANGED <<relay, env, sessionCookies, pc, targetUrl, targetDomain, forwardHeaders,
                 originalRejectUnauthorized, reqHeaders, res, response, clientUrls,
                 clientHeaders, clientMethods, upstreamSetCookies, upstreamResponses,
                 initialEnv, solo, wrote, captured, reqUrl, lastSetCookie>>
  /\ UNCHANGED <<thisComponent, thisItem, thisProxy, thisEndpoint, sessionId, error, stats,
                 sessionCookie, serverError, fetchData, failedSince, sides, arrived>>

NextWidget == WidgetFetch

\* this.fetch(p, i): the fetch the helper makes.
HelperFetch(p, i) ==
  LET call == fetch(thisComponent, thisProxy, thisItem, thisEndpoint, p, i)
  IN  /\ fetchPath' = p
      /\ fetchInit' = i
      /\ fetchUrl' = call.url
      /\ fetchOptions' = call.options

\* What a widget leaves alone.
mounted == <<server, thisComponent, thisItem, thisProxy, thisEndpoint>>

unifi == <<sessionCookie, serverError, fetchData, failedSince>>

transmission == <<sessionId, error, stats>>

\* The widget calls this.fetch(path) and the browser sends the request of
\* the helper to the standalone relay.
BrowserFetch ==
  /\ thisComponent # "none"
  /\ UsesProxy(thisItem, thisProxy)
  /\ \E p \in QueryPaths :
       /\ HelperFetch(p, EmptyMap)
       /\ clientUrls' = {fetch(thisComponent, thisProxy, thisItem, thisEndpoint, p, EmptyMap).url}
  /\ UNCHANGED <<relay, env, sessionCookies, pc, targetUrl, targetDomain, forwardHeaders,
                 originalRejectUnauthorized, reqHeaders, res, response,
                 clientHeaders, clientMethods, upstreamSetCookies, upstreamResponses,
                 initialEnv, solo, wrote, captured, reqUrl, lastSetCookie, sides, arrived>>
  /\ UNCHANGED <<thisComponent, thisItem, thisProxy, thisEndpoint, transmission, unifi>>

-----------------------------------------------------------------------------
(* The Transmission widget's getStats and transmissionRequest *)

\* this.fetch("/transmission/rpc", options): the fetch the helper makes.
RpcFetch(options) == HelperFetch(RpcPath, options)

\* getStats ends: with error as given.
StatsDone(r, answer, flag) ==
  /\ stats' = [stats EXCEPT ![r] = [@ EXCEPT !.pc = "done", !.answer = answer]]
  /\ error' = flag
  /\ UNCHANGED <<sessionId, fetchPath, fetchInit, fetchUrl, fetchOptions>>

\* getStats is called, by created() or by the timer: transmissionRequest up
\* to the await of its first fetch.
GetStats(r) ==
  /\ thisComponent = "Transmission"
  /\ stats[r].pc \in {"idle", "done"}
  /\ RpcFetch(TransmissionOptions(sessionId))
  /\ stats' = [stats EXCEPT ![r] = [pc |-> "first", fetches |-> 1, answer |-> NoAnswer]]
  /\ UNCHANGED <<mounted, unifi, sessionId, error>>

\* The first fetch comes to its end: the response goes to getStats, or the
\* catch block retries with the session id of a 409, or the error goes to
\* getStats.
FirstAnswer(r) ==
  /\ thisComponent = "Transmission"
  /\ stats[r].pc = "first"
  /\ \E answer \in TransmissionAnswers :
       IF ~Throws(thisItem, answer)
       THEN StatsDone(r, answer, StatsError(answer))
       ELSE IF NeedsSession(answer)
            THEN /\ sessionId' = ExtractedSessionId(answer)
                 /\ RpcFetch(TransmissionOptions(ExtractedSessionId(answer)))
                 /\ stats' = [stats EXCEPT ![r] = [pc |-> "retry", fetches |-> @.fetches + 1,
                                                   answer |-> answer]]
                 /\ UNCHANGED error
            ELSE StatsDone(r, answer, JsTrue)
  /\ UNCHANGED <<mounted, unifi>>

\* The retry comes to its end: the response, or the error, goes to getStats.
RetryAnswer(r) ==
  /\ thisComponent = "Transmission"
  /\ stats[r].pc = "retry"
  /\ \E answer \in TransmissionAnswers :
       IF ~Throws(thisItem, answer)
       THEN StatsDone(r, answer, StatsError(answer))
       ELSE StatsDone(r, answer, JsTrue)
  /\ UNCHANGED <<mounted, unifi>>

NextTransmission ==
  \E r \in Runs :
    \/ GetStats(r)
    \/ FirstAnswer(r)
    \/ RetryAnswer(r)

-----------------------------------------------------------------------------
(* The Unifi widget's fetchData and authenticateUnifi *)

\* The two stat requests go out: Promise.all awaits both.
IssueStats(r, held, loggedIn) ==
  /\ HelperFetch(StatDevicePath, EmptyMap)
  /\ fetchData' = [fetchData EXCEPT ![r] = [pc |-> "stat", held |-> held, loggedIn |-> loggedIn,
                                            pending |-> StatNames, unusable |-> FALSE]]

\* The catch block of fetchData.
FetchDataFails(r) ==
  /\ serverError' = JsTrue
  /\ sessionCookie' = undefined
  /\ fetchData' = [fetchData EXCEPT ![r] = [@ EXCEPT !.pc = "done", !.pending = {}]]
  /\ failedSince' = TRUE
  /\ UNCHANGED <<fetchPath, fetchInit, fetchUrl, fetchOptions>>

\* fetchData is called, by created() or by the timer: up to the await of
\* the login when no session is held, of the stat requests otherwise.
FetchData(r) ==
  /\ thisComponent = "Unifi"
  /\ fetchData[r].pc \in {"idle", "done"}
  /\ IF ~Holds(sessionCookie)
     THEN /\ HelperFetch(LoginEndpoint, LoginInit)
          /\ fetchData' = [fetchData EXCEPT ![r] = [IdleFetchData EXCEPT !.pc = "login"]]
     ELSE IssueStats(r, TRUE, FALSE)
  /\ failedSince' = FALSE
  /\ UNCHANGED <<mounted, transmission, sessionCookie, serverError>>

\* The login comes to its end: authenticateUnifi sets the session flag and
\* the stat requests go out, or it clears the flag and throws.
LoginAnswer(r) ==
  /\ thisComponent = "Unifi"
  /\ fetchData[r].pc = "login"
  /\ \E answer \in UnifiAnswers :
       IF Throws(thisItem, answer)
       THEN FetchDataFails(r)
       ELSE /\ sessionCookie' = JsTrue
            /\ IssueStats(r, FALSE, TRUE)
            /\ UNCHANGED <<serverError, failedSince>>
  /\ UNCHANGED <<mounted, transmission>>

\* One of the stat requests comes to its end. Promise.all rejects with the
\* first that fails; when both have succeeded the counts are taken from the
\* data, which throws when a response is null, and serverError is cleared.
StatAnswer(r) ==
  /\ thisComponent = "Unifi"
  /\ fetchData[r].pc = "stat"
  /\ \E name \in fetchData[r].pending, answer \in UnifiAnswers :
       LET unusable == fetchData[r].unusable \/ answer.result = "null"
       IN  IF Throws(thisItem, answer)
           THEN FetchDataFails(r)
           ELSE IF fetchData[r].pending # {name}
                THEN /\ fetchData' = [fetchData EXCEPT ![r] = [@ EXCEPT !.pending = @ \ {name},
                                                                        !.unusable = unusable]]
                     /\ UNCHANGED <<sessionCookie, serverError, failedSince, fetchPath,
                                    fetchInit, fetchUrl, fetchOptions>>
                ELSE IF unusable
                     THEN FetchDataFails(r)
                     ELSE /\ fetchData' = [fetchData EXCEPT ![r] = [@ EXCEPT !.pc = "done",
                                                                             !.pending = {}]]
                          /\ serverError' = JsFalse
                          /\ UNCHANGED <<sessionCookie, failedSince, fetchPath, fetchInit,
                                         fetchUrl, fetchOptions>>
  /\ UNCHANGED <<mounted, transmission>>

NextUnifi ==
  \E r \in Runs :
    \/ FetchData(r)
    \/ LoginAnswer(r)
    \/ StatAnswer(r)

-----------------------------------------------------------------------------

NextStandalone ==
  \E c \in Calls :
    \/ Receive(c)
    \/ FetchResolve(c)
    \/ FetchReject(c)
    \/ BodyResolve(c)
    \/ BodyReject(c)

NextVite ==
  \E c \in Calls :
    \/ ViteReceive(c)
    \/ ViteUpload(c)
    \/ ViteUploadReject(c)
    \/ ViteFetchResolve(c)
    \/ ViteFetchReject(c)
    \/ ViteBodyResolve(c)
    \/ ViteBodyReject(c)

Next == NextStandalone \/ NextVite

NextRoundTrip == BrowserFetch \/ NextStandalone

\* The standalone relay, one upstream host.
Spec == Init /\ [][NextStandalone]_vars

\* The standalone relay, two upstream hosts.
SpecHosts == InitHosts /\ [][NextStandalone]_vars

\* Either relay, inbound requests with cookies of their own.
SpecInbound == InitInbound /\ [][Next]_vars

\* Either relay, any initial TLS setting.
SpecTls == InitTls /\ [][Next]_vars

\* Either relay, upstream responses with headers of several kinds.
SpecRelay == InitRelay /\ [][Next]_vars

\* Either relay, targets in their several written forms.
SpecTargets == InitTargets /\ [][Next]_vars

\* The standalone relay, responses with and without Set-Cookie.
SpecLifecycle == InitLifecycle /\ [][NextStandalone]_vars

\* The standalone relay whose every upstream call comes to an end: fetch
\* resolves or rejects, and so does the reading of the body.
SpecAnswers ==
  /\ InitAnswers
  /\ [][NextStandalone]_vars
  /\ \A c \in Calls : WF_vars(FetchResolve(c) \/ FetchReject(c))
  /\ \A c \in Calls : WF_vars(BodyResolve(c) \/ BodyReject(c))

\* The Transmission widget and its runs of getStats.
SpecTransmission == InitTransmission /\ [][NextTransmission]_vars

\* The Unifi widget and its runs of fetchData.
SpecUnifi == InitUnifi /\ [][NextUnifi]_vars

\* The two relays side by side.
SpecSides == InitSides /\ [][NextSides]_vars

\* The widget's helper and the standalone relay behind it.
SpecRoundTrip == InitRoundTrip /\ [][NextRoundTrip]_vars

\* The widgets' fetch helper, under every configuration.
SpecWidget == InitWidget /\ [][NextWidget]_vars

-----------------------------------------------------------------------------
(* The TLS verification setting *)

\* C1: whenever no proxied call is in progress, NODE_TLS_REJECT_UNAUTHORIZED
\* has the value it had before the first call started (it is absent if it
\* was absent): the toggle never leaks past the calls that made it.
C1_TlsSettingNeverLeaks ==
  (\A c \in Calls : ~Active(c)) => env = initialEnv

\* C2: while a call of the standalone relay awaits its upstream fetch, the
\* setting reads "0", whatever other calls have done in between.
C2_FetchRunsWithVerificationDisabled ==
  \A c \in Calls : (relay = "standalone" /\ pc[c] = "fetch") => env = <<"0">>

\* C3: a call that begins while no other call is in progress, and during
\* which no other call begins, leaves the setting as it was before the call
\* when it returns, whether its fetch succeeded or failed.
C3_SingleCallRestoresTls ==
  [][\A c \in Calls :
       (Active(c) /\ ~Active(c)' /\ solo[1] = c) => env' = solo[2]]_vars

\* A call has failed and returned while no other call has ever begun, with
\* the setting back at the "1" the process started with.
C3_Witness ==
  /\ pc[1] = "done" /\ res[1].status = 500 /\ res[1].error = "Proxy request failed"
  /\ \A c \in Calls \ {1} : pc[c] = "idle"
  /\ initialEnv = <<"1">> /\ env = <<"1">>

-----------------------------------------------------------------------------
(* The Session Table and the cookie header *)

\* C4: once a request to host H has completed with a response whose
\* Set-Cookie was captured, every request to H that starts afterwards sends
\* a cookie header equal to the Session Table entry for H at that moment.
C4_SessionAffinity ==
  [][\A c \in Calls :
       (~Active(c) /\ Active(c)' /\ targetDomain'[c] \in captured)
         => /\ Cookie \in DOMAIN forwardHeaders'[c]
            /\ forwardHeaders'[c][Cookie] = MapGet(sessionCookies, targetDomain'[c])]_vars

\* C5: the outbound cookie header never comes from the inbound request: it
\* is exactly the stored value when the Session Table has an entry for the
\* target host, and it is absent when the table has no entry for the host.
C5_CookieOnlyFromSessionTable ==
  [][\A c \in Calls :
       (~Active(c) /\ Active(c)')
         => IF targetDomain'[c] \in DOMAIN sessionCookies
            THEN MapGet(forwardHeaders'[c], Cookie) = sessionCookies[targetDomain'[c]]
            ELSE Cookie \notin DOMAIN forwardHeaders'[c]]_vars

\* C6: for every host H, after a response from H carrying
\* `Set-Cookie: a=1; Path=/, b=2; Path=/` has been captured, the stored value
\* for H is exactly `a=1; b=2`: the name=value parts joined by "; " and
\* no other character.
C6_CapturedValueIsExact ==
  \A h \in DOMAIN sessionCookies :
    lastSetCookie[h] = SetCookieTwo
      => sessionCookies[h] = <<"a", "=", "1", ";", " ", "b", "=", "2">>

\* C7 as stated: when the handler has dealt with a response that bears a
\* Set-Cookie header, the Session Table entry for the response's host is
\* what the capture makes of that header alone, whatever was stored before.
C7_EntryFromResponseAlone ==
  [][\A c \in Calls :
       (pc[c] = "fetch" /\ pc'[c] = "body" /\ SetCookie \in DOMAIN res'[c].headers)
         => MapGet(sessionCookies', targetDomain[c])
              = CaptureCookies(res'[c].headers[SetCookie])]_vars

\* C7, amended: when the handler has dealt with a response that bears a
\* Set-Cookie header with a non-empty value, the Session Table entry for
\* the response's host is what the capture makes of that header alone, and
\* nothing of the entry stored before survives.
C7_EntryFromNonEmptyResponseAlone ==
  [][\A c \in Calls :
       (/\ pc[c] = "fetch" /\ pc'[c] = "body"
        /\ SetCookie \in DOMAIN res'[c].headers
        /\ res'[c].headers[SetCookie] # <<>>)
         => MapGet(sessionCookies', targetDomain[c])
              = CaptureCookies(res'[c].headers[SetCookie])]_vars

\* A call that was sent with the stored cookie `a=1;  b=2` has received
\* `Set-Cookie: a=3`, and the entry of its host is now `a=3`.
C7_Witness ==
  \E c \in Calls :
    /\ pc[c] = "body" /\ c \in wrote
    /\ MapGet(forwardHeaders[c], Cookie) = CaptureCookies(SetCookieTwo)
    /\ MapGet(res[c].headers, SetCookie) = SetCookieOne
    /\ MapGet(sessionCookies, targetDomain[c]) = SetCookieOne

\* C8: the stored value of a host is always the complete captured value of
\* the response whose handler wrote the table last for that host, also when
\* calls to the host overlap: it is never a mixture of two responses.
C8_LastWriterWins ==
  \A h \in DOMAIN sessionCookies :
    /\ h \in DOMAIN lastSetCookie
    /\ sessionCookies[h] = CaptureCookies(lastSetCookie[h])
    /\ sessionCookies[h] \in {CaptureCookies(v) : v \in upstreamSetCookies}

\* Two calls to the same host were in flight together: call d began when
\* the host had no entry, call c has since stored `a=1;  b=2` and finished,
\* and d, whose response carried `Set-Cookie: a=3`, has written last.
C8_Witness ==
  \E c, d \in Calls :
    /\ c # d /\ pc[c] = "done" /\ res[c].sent
    /\ MapGet(res[c].headers, SetCookie) = SetCookieTwo
    /\ pc[d] = "body" /\ d \in wrote /\ targetDomain[d] = HostA
    /\ Cookie \notin DOMAIN forwardHeaders[d]
    /\ MapGet(res[d].headers, SetCookie) = SetCookieOne
    /\ MapGet(lastSetCookie, HostA) = SetCookieOne
    /\ MapGet(sessionCookies, HostA) = SetCookieOne

\* C9: a step of a call whose target host is H leaves the Session Table
\* entry of every other host as it was, and the cookie the call is sent
\* with, if any, is the entry of H and of no other host.
C9_HostsDoNotInterfere ==
  [][\A c \in Calls :
       pc'[c] # pc[c]
         => /\ \A h \in (DOMAIN sessionCookies \cup DOMAIN sessionCookies')
                      \ {targetDomain[c], targetDomain'[c]} :
                 MapGet(sessionCookies', h) = MapGet(sessionCookies, h)
            /\ (~Active(c) /\ Active(c)' /\ Cookie \in DOMAIN forwardHeaders'[c])
                 => forwardHeaders'[c][Cookie] = MapGet(sessionCookies, targetDomain'[c])]_vars

\* Calls to two hosts are in flight together, each was sent with the cookie
\* of its own host, each has captured a cookie, and the two hosts' entries
\* differ.
C9_Witness ==
  \E c, d \in Calls :
    /\ pc[c] = "body" /\ pc[d] = "body" /\ {c, d} \subseteq wrote
    /\ targetDomain[c] = HostA /\ targetDomain[d] = HostB
    /\ Cookie \in DOMAIN forwardHeaders[c] /\ Cookie \in DOMAIN forwardHeaders[d]
    /\ forwardHeaders[c][Cookie] # forwardHeaders[d][Cookie]
    /\ MapGet(sessionCookies, HostA) = SetCookieOne
    /\ MapGet(sessionCookies, HostB) = CaptureCookies(SetCookieTwo)

\* C10: a call that is answered with an error (400 or 500) has not written
\* the Session Table. Here for a table that was empty before the request:
\* no call has written it and no other call has begun, so it is still
\* empty when the error response goes out.
C10_FailedCallLeavesTable ==
  [][\A c \in Calls :
       (/\ captured = {}
        /\ \A d \in Calls \ {c} : pc[d] = "idle"
        /\ pc'[c] = "done" /\ res'[c].status \in {400, 500})
         => sessionCookies' = EmptyMap]_vars

\* C11: the entry of a host H is created or changed only by the handling of
\* a response from H that bears Set-Cookie; a response without Set-Cookie
\* leaves the table as it was; and no step ever removes an entry.
C11_TableLifecycle ==
  [][/\ \A h \in DOMAIN sessionCookies :
          h \in DOMAIN sessionCookies'
     /\ \A h \in DOMAIN sessionCookies' :
          MapGet(sessionCookies', h) # MapGet(sessionCookies, h)
            => \E c \in Calls :
                 /\ pc[c] = "fetch" /\ pc'[c] = "body" /\ targetDomain[c] = h
                 /\ SetCookie \in DOMAIN res'[c].headers
     /\ \A c \in Calls :
          (pc[c] = "fetch" /\ pc'[c] = "body" /\ SetCookie \notin DOMAIN res'[c].headers)
            => sessionCookies' = sessionCookies]_vars

\* A host has an entry, and a later response from it, without Set-Cookie,
\* has been handled: the entry is still there, as the call found it.
C11_Witness ==
  \E c \in Calls :
    /\ pc[c] = "body" /\ c \notin wrote
    /\ res[c].status = UpstreamStatus /\ SetCookie \notin DOMAIN res[c].headers
    /\ targetDomain[c] = HostA /\ HostA \in captured
    /\ MapGet(forwardHeaders[c], Cookie) = SetCookieOne
    /\ MapGet(sessionCookies, HostA) = SetCookieOne
    /\ HostB \notin DOMAIN sessionCookies

-----------------------------------------------------------------------------
(* Requests that fail *)

\* C12: a request whose target path is empty (nothing is left of the
\* inbound path once the leading slash and api/proxy/ are removed) is
\* answered 400 "No target URL provided" with no outbound call: the handler
\* does not reach its fetch, and the step that serves the request leaves
\* the TLS setting and the Session Table as they were.
C12_EmptyTargetIs400 ==
  [][\A c \in Calls :
       ProxyPath(reqUrl'[c]) = <<>>
         => /\ ~Active(c)'
            /\ res'[c].status = 400
            /\ res'[c].error = "No target URL provided"
            /\ (reqUrl'[c] # reqUrl[c] \/ res'[c] # res[c])
                 => (env' = env /\ sessionCookies' = sessionCookies)]_vars

\* C13: a request for which no target URL can be extracted (the target is
\* empty, its percent-encoding cannot be decoded, or what is decoded is not
\* an absolute URL) is answered 400, never 500.
C13_ExtractionFailureIs400 ==
  \A c \in Calls :
    LET u == reqUrl[c]
        p == ProxyPath(u)
        t == TargetUrl(p)
    IN (/\ u # undefined /\ ~Active(c)
        /\ relay = "vite" => startsWith(u, SlashApiProxyPrefix)
        /\ (p = <<>> \/ IsError(t) \/ IsError(UrlHost(t))))
         => res[c].status = 400

\* C14: a call whose forwarding fails (the fetch or the reading of the
\* upstream body rejects) is answered 500 "Proxy request failed", and the
\* failure stays with that request. Here for a call that ran alone in a
\* process where no call had written the Session Table: when it has
\* failed, the TLS setting and the table are what they were before it, so
\* that later requests are served as if it had not been made.
C14_ForwardingFailureIsConfined ==
  [][\A c \in Calls :
       (Active(c) /\ pc'[c] = "done" /\ res'[c].error # "")
         => /\ res'[c].status = 500
            /\ res'[c].error = "Proxy request failed"
            /\ (/\ solo[1] = c /\ captured = {}
                /\ \A d \in Calls \ {c} : pc[d] = "idle")
                 => (env' = solo[2] /\ sessionCookies' = EmptyMap)]_vars

-----------------------------------------------------------------------------
(* The target of the outbound call *)

\* C15: when the inbound path decodes to a URL with one slash after https:
\* or http:, the call is forwarded to that URL with two slashes; a target
\* that has its two slashes is forwarded as it is. The standalone relay
\* holds the corrected string itself, and correcting it again changes
\* nothing; in either relay it is the URL that fetch requests.
C15_SchemeCorrection ==
  \A c \in Calls :
    Active(c) =>
      LET p == substring(reqUrl[c], Len(SlashApiProxyPrefix))
          d == IF includes(p, <<"%">>) THEN decodeURIComponent(p) ELSE p
          k == IF startsWith(d, HttpsTwoSlash) \/ startsWith(d, HttpTwoSlash) THEN d
               ELSE IF startsWith(d, HttpsOneSlash)
               THEN HttpsTwoSlash \o substring(d, Len(HttpsOneSlash))
               ELSE IF startsWith(d, HttpOneSlash)
               THEN HttpTwoSlash \o substring(d, Len(HttpOneSlash))
               ELSE d
      IN /\ UrlHref(targetUrl[c]) = k
         /\ relay = "standalone" => (targetUrl[c] = k /\ FixScheme(targetUrl[c]) = k)

\* The standalone relay is forwarding two requests: one whose path decodes
\* to https:/a.io/s, to https://a.io/s, and one for http:/b.io/s, to
\* http://b.io/s.
C15_Witness ==
  \E c, d \in Calls :
    /\ relay = "standalone" /\ pc[c] = "fetch" /\ pc[d] = "fetch"
    /\ reqUrl[c] = UrlASingle
    /\ targetUrl[c] = <<"h", "t", "t", "p", "s", ":", "/", "/", "a", ".", "i", "o", "/", "s">>
    /\ reqUrl[d] = UrlB
    /\ targetUrl[d] = <<"h", "t", "t", "p", ":", "/", "/", "b", ".", "i", "o", "/", "s">>

\* C16: the target is the inbound path without its leading slash and its
\* api/proxy/ prefix, percent-decoded once when it contains a % and left as
\* it is when it does not (the standalone relay then corrects the scheme);
\* /api/proxy/https%3A%2F%2Fa.io%2Fs gives https://a.io/s. A request is
\* turned down only when what is decoded, once, is not a URL.
C16_TargetDecoding ==
  \A c \in Calls :
    reqUrl[c] # undefined =>
      LET p == substring(reqUrl[c], 1 + Len(ApiProxyPrefix))
          d == IF includes(p, <<"%">>) THEN decodeURIComponent(p) ELSE p
      IN /\ reqUrl[c] = <<"/">> \o ApiProxyPrefix \o p
         /\ Active(c) =>
              targetUrl[c] = (IF relay = "standalone" THEN FixScheme(d) ELSE d)
         /\ ~Active(c) => (IsError(d) \/ IsError(UrlHost(d)))
         /\ (Active(c) /\ reqUrl[c] = UrlAEncoded) =>
              targetUrl[c] = <<"h", "t", "t", "p", "s", ":", "/", "/", "a", ".", "i", "o", "/", "s">>

\* One request for /api/proxy/https%3A%2F%2Fa.io%2Fs is being forwarded to
\* https://a.io/s, and one for a target encoded twice has been turned
\* down, decoded once.
C16_Witness ==
  \E c, d \in Calls :
    /\ pc[c] = "fetch" /\ reqUrl[c] = UrlAEncoded
    /\ targetUrl[c] = <<"h", "t", "t", "p", "s", ":", "/", "/", "a", ".", "i", "o", "/", "s">>
    /\ targetDomain[c] = HostA
    /\ pc[d] = "done" /\ reqUrl[d] = UrlTwice /\ res[d].status = 500

-----------------------------------------------------------------------------
(* The headers of the outbound call *)

\* C17: the names of the headers of an outbound call are among user-agent,
\* accept, content-type, authorization, cookie and the inbound names that
\* begin with x-; every inbound x- header is there with its value;
\* user-agent and accept are always there, with the inbound value or else
\* with Homer-Proxy/1.0 and */*.
C17_HeaderAllowList ==
  \A c \in Calls :
    Active(c) =>
      LET inbound == reqHeaders[c]
          outbound == forwardHeaders[c]
          xs == {k \in DOMAIN inbound : startsWith(k, XPrefix)}
      IN /\ {toLowerCase(k) : k \in DOMAIN outbound}
              \subseteq {UserAgent, Accept, ContentType, Authorization, Cookie} \cup xs
         /\ \A k \in xs : k \in DOMAIN outbound /\ outbound[k] = inbound[k]
         /\ UserAgent \in DOMAIN outbound
         /\ outbound[UserAgent] = (IF UserAgent \in DOMAIN inbound
                                   THEN inbound[UserAgent] ELSE DefaultUserAgent)
         /\ Accept \in DOMAIN outbound
         /\ outbound[Accept] = (IF Accept \in DOMAIN inbound
                                THEN inbound[Accept] ELSE DefaultAccept)

\* C18: content-type and authorization are headers of the outbound call
\* only if the inbound request has them: without an inbound content-type
\* (authorization) the outbound headers have no content-type
\* (authorization) key at all.
C18_OnlyIfPresentInbound ==
  \A c \in Calls :
    Active(c) =>
      \A k \in {ContentType, Authorization} :
        k \notin DOMAIN reqHeaders[c] => k \notin DOMAIN forwardHeaders[c]

-----------------------------------------------------------------------------
(* The relayed response *)

-----------------------------------------------------------------------------
(* The contract between the widgets and the relay *)

\* C20: a request the fetch helper routes through the relay (item.useProxy
\* or proxy.enabled is set) has /api/proxy/ followed by the target URL as its
\* URL and options with no credentials setting, whatever credentials value the
\* proxy configuration, the item configuration or the caller's init gave; a
\* request that is not routed has the target URL itself as its URL.
C20_WidgetRelayContract ==
  fetchUrl # undefined =>
    LET target == WidgetTarget(thisEndpoint, fetchPath)
    IN  IF Holds(MapGet(thisItem, UseProxy)) \/ Holds(ProxyGet(thisProxy, Enabled))
        THEN /\ fetchUrl = <<"/", "a", "p", "i", "/", "p", "r", "o", "x", "y", "/">> \o target
             /\ MapGet(fetchOptions, Credentials) = undefined
        ELSE fetchUrl = target

\* A routed request for /s of https://a.io whose proxy configuration, item
\* configuration and init all asked for credentials: it goes to
\* /api/proxy/https://a.io/s with no credentials setting.
C20_Witness ==
  /\ Holds(MapGet(thisItem, UseProxy))
  /\ Holds(ProxyGet(thisProxy, UseCredentials))
  /\ MapGet(thisItem, UseCredentials) = JsTrue
  /\ MapGet(fetchInit, Credentials) = SameOrigin
  /\ fetchPath = <<"/", "s">>
  /\ fetchUrl = <<"/", "a", "p", "i", "/", "p", "r", "o", "x", "y", "/",
                  "h", "t", "t", "p", "s", ":", "/", "/", "a", ".", "i", "o", "/", "s">>
  /\ Credentials \notin DOMAIN fetchOptions

-----------------------------------------------------------------------------
(* One response to every request *)

\* The responses of the standalone relay: the upstream's, relayed under
\* its status, and the three errors.
IsRelayAnswer(reply) ==
  \/ reply.error = "" /\ reply.status \in {r.status : r \in upstreamResponses}
  \/ reply.status = 400 /\ reply.error = "No target URL provided"
  \/ reply.status = 500 /\ reply.error = "Proxy request failed"
  \/ reply.status = 500 /\ reply.error = "Server error"

-----------------------------------------------------------------------------
(* The 409 recovery of the Transmission widget *)

\* C22: one transmissionRequest issues at most two fetches. The second is
\* issued only when the first failed with status 409 and a session id was
\* found, in the x-transmission-session-id response header or else in the
\* response text; it carries that id in X-Transmission-Session-Id, and the
\* widget's sessionId has become that id. When the retry fails, with another
\* 409 too, or when no id is found, no further fetch is issued and getStats
\* sets error to true.
C22_BoundedRecovery ==
  [][\A r \in Runs :
       LET before == stats[r]
           after == stats[r]'
           failed == after.answer.status \notin 200..299
           inHeader == MapGet(after.answer.headers, toLowerCase(SessionIdHeader))
           id == IF inHeader # undefined /\ inHeader # <<>>
                 THEN inHeader
                 ELSE SessionIdMatch(after.answer.text)
           found == id # undefined /\ id # <<>>
       IN  /\ after.fetches <= 2
           /\ (before.fetches = 1 /\ after.fetches = 2) =>
                /\ before.pc = "first"
                /\ after.answer.status = 409
                /\ found
                /\ sessionId' = id
                /\ SessionIdHeader \in DOMAIN fetchOptions'[HeadersKey]
                /\ fetchOptions'[HeadersKey][SessionIdHeader] = id
           /\ (/\ before.pc \in {"first", "retry"}
               /\ after # before
               /\ failed
               /\ before.pc = "retry" \/ after.answer.status # 409 \/ ~found) =>
                /\ after.pc = "done"
                /\ after.fetches = before.fetches
                /\ error' = JsTrue
                /\ UNCHANGED <<fetchUrl, fetchOptions>>]_vars

\* A run whose first fetch met a 409 with the session id B2 in its text and
\* whose retry met a 409 again: two fetches, and error is true.
C22_Witness ==
  \E r \in Runs :
    /\ stats[r].pc = "done"
    /\ stats[r].fetches = 2
    /\ stats[r].answer.status = 409
    /\ error = JsTrue
    /\ sessionId = <<"B", "2">>
    /\ fetchOptions[HeadersKey][SessionIdHeader] = <<"B", "2">>

-----------------------------------------------------------------------------
(* The session of the Unifi widget *)

\* The stat requests of a run are out only after its login has succeeded,
\* which it made as no session was held, or as the session flag was set when
\* it began.
StatsAfterLogin ==
  \A r \in Runs : fetchData[r].pc = "stat" => fetchData[r].loggedIn \/ fetchData[r].held

\* A run that ends at its login, at the first answer to its stat requests
\* or without clearing serverError has failed: it sets serverError and clears
\* sessionCookie.
FailureResets ==
  \A r \in Runs :
    (/\ fetchData[r].pc \in {"login", "stat"}
     /\ fetchData'[r].pc = "done"
     /\ \/ fetchData[r].pc = "login"
        \/ Cardinality(fetchData[r].pending) = 2
        \/ serverError' # JsFalse) =>
      (serverError' = JsTrue /\ sessionCookie' = undefined)

\* serverError becomes false only as a run ends whose two stat requests
\* have succeeded.
ClearedBySuccess ==
  (serverError # JsFalse /\ serverError' = JsFalse) =>
    \E r \in Runs :
      /\ fetchData[r].pc = "stat"
      /\ Cardinality(fetchData[r].pending) = 1
      /\ fetchData'[r].pc = "done"

\* The run that begins next after a failure performs a login before any
\* stat request.
LoginAfterFailure ==
  \A r \in Runs :
    (/\ failedSince
     /\ fetchData[r].pc \in {"idle", "done"}
     /\ fetchData'[r].pc \notin {"idle", "done"}) =>
      fetchData'[r].pc = "login"

\* C23: a fetchData run issues the two stat requests only after a login has
\* succeeded while no session was held, or while the session flag is already
\* set; a failure of the login or of either stat request sets serverError to
\* true and sessionCookie to null, so that the next run performs a login
\* before any stat request; serverError becomes false only at the end of a
\* run in which both stat requests succeeded. Runs overlap.
C23_SessionMachine ==
  [][StatsAfterLogin' /\ FailureResets /\ LoginAfterFailure /\ ClearedBySuccess]_vars

-----------------------------------------------------------------------------
(* The two relays keep the same Session Table *)

\* The two relays have stored the same mapping from hosts to cookies.
SameTables == sides["standalone"].table = sides["vite"].table

\* The calls the two relays have made for a request carry the same cookie
\* header.
SameCookies ==
  \A c \in Calls :
    (\A name \in Relays : sides[name].pc[c] = "fetch") =>
      sides["standalone"].cookie[c] = sides["vite"].cookie[c]

\* C24: before the same inbound requests under /api/proxy/ and the same
\* upstream responses, the development server's middleware and the standalone
\* relay store the same mapping from hosts to cookies after every request, and
\* send the same cookie header on every outbound call.
C24_SameSessionTable == SameTables /\ SameCookies

-----------------------------------------------------------------------------
(* From the widget's helper to the relay and on *)

\* C25: for every absolute target URL that the fetch helper embeds, as it
\* is, after /api/proxy/, the URL the standalone relay forwards to is that
\* target URL, also when it has a query string or percent-escapes.
C25_RoundTrip ==
  \A c \in Calls :
    (pc[c] \in {"fetch", "body"} /\ fetchUrl # undefined /\ reqUrl[c] = fetchUrl) =>
      targetUrl[c] = WidgetTarget(thisEndpoint, fetchPath)

====
